---------------------------- MODULE Spec2Model ----------------------------
(***************************************************************************)
(* Model of the quality metrics engine of src/src/services/metrics.ts.     *)
(*                                                                         *)
(* Text is a sequence of one-character strings, so that the regular        *)
(* expressions of the source (split, test, match) are modelled by what     *)
(* they do on the characters.  Numbers are exact rationals [n, d] with     *)
(* d > 0; a record with d = 0 stands for a non-finite JavaScript number    *)
(* (NaN or an infinity), which only a division by zero produces.           *)
(***************************************************************************)
EXTENDS Integers, Sequences, FiniteSets, TLC

(***************************************************************************)
(* Characters                                                              *)
(***************************************************************************)
UpperChars == <<"A","B","C","D","E","F","G","H","I","J","K","L","M",
                "N","O","P","Q","R","S","T","U","V","W","X","Y","Z">>
LowerChars == <<"a","b","c","d","e","f","g","h","i","j","k","l","m",
                "n","o","p","q","r","s","t","u","v","w","x","y","z">>

\* \s of the regular expressions, restricted to the characters the inputs use
WhiteSpace == {" ", "\n", "\t"}
\* [.!?] of splitIntoSentences and calculateStructuralQuality
Terminators == {".", "!", "?"}
\* \d
Digits == {"0","1","2","3","4","5","6","7","8","9"}
\* the bullet and the backquote, which a TLA+ string cannot hold, as characters
Bullet == "<bullet>"
Backquote == "<backquote>"
\* [-*\d] and the bullet, of the list pattern
ListChars == {"-", Bullet, "*"} \cup Digits
UpperSet == {UpperChars[i] : i \in 1..26}
LowerSet == {LowerChars[i] : i \in 1..26}

\* String.prototype.toLowerCase on one character
LowerChar(c) ==
  IF c \in UpperSet THEN LowerChars[CHOOSE i \in 1..26 : UpperChars[i] = c]
  ELSE c

\* String.prototype.toLowerCase
toLowerCase(s) == [i \in 1..Len(s) |-> LowerChar(s[i])]

\* String.prototype.includes
includes(s, w) ==
  \E i \in 1..(Len(s) - Len(w) + 1) : \A k \in 1..Len(w) : s[i + k - 1] = w[k]

\* String.prototype.trim
trim(s) ==
  LET keep == {i \in 1..Len(s) : s[i] \notin WhiteSpace}
  IN  IF keep = {} THEN <<>>
      ELSE LET lo == CHOOSE i \in keep : \A j \in keep : i <= j
               hi == CHOOSE i \in keep : \A j \in keep : j <= i
           IN  SubSeq(s, lo, hi)

\* the k-th smallest element of a set of integers
nth(S, k) == CHOOSE x \in S : Cardinality({y \in S : y <= x}) = k

\* the first index from i on whose character is not in C (Len(s) + 1 if none):
\* where a greedy C* that starts at i stops
RunEnd(s, i, C) ==
  CHOOSE j \in i..(Len(s) + 1) :
    /\ \A k \in i..(j - 1) : s[k] \in C
    /\ (j = Len(s) + 1 \/ s[j] \notin C)

\* the positions where a maximal run of characters of C starts: the matches
\* of /[C]+/g
runStarts(s, C) ==
  {i \in 1..Len(s) : s[i] \in C /\ (i = 1 \/ s[i - 1] \notin C)}

\* the elements of a set S of integers of 1..n, in increasing order
sorted(S, n) ==
  LET In(i) == i \in S
  IN  SelectSeq([i \in 1..n |-> i], In)

\* String.prototype.split(/[C]+/): the pieces between the maximal runs of
\* characters of C, the empty pieces at either end included
splitRuns(s, C) ==
  LET starts == sorted(runStarts(s, C), Len(s))
      n == Len(starts)
      \* the piece before the k-th run ends where the run starts; the piece
      \* after the last run ends with the text
      pieceEnd(k) == IF k > n THEN Len(s) ELSE starts[k] - 1
      pieceStart(k) == IF k = 1 THEN 1 ELSE RunEnd(s, starts[k - 1], C)
  IN  [k \in 1..(n + 1) |-> SubSeq(s, pieceStart(k), pieceEnd(k))]

\* String.prototype.split(/[C]+/).length
splitLength(s, C) == Cardinality(runStarts(s, C)) + 1

\* s.split(/\s+/)
splitWhitespace(s) == splitRuns(s, WhiteSpace)

\* Array.prototype.filter: the elements of seq at the indices keep, in order
filter(seq, keep) ==
  LET kept == sorted(keep, Len(seq))
  IN  [k \in 1..Len(kept) |-> seq[kept[k]]]

\* the strings of seq that are longer than n
longerThan(seq, n) == filter(seq, {i \in 1..Len(seq) : Len(seq[i]) > n})

Range(seq) == {seq[i] : i \in 1..Len(seq)}

\* text.split(/\n\n+/).length: one more than the number of maximal runs of
\* two or more newlines
paragraphCount(s) ==
  1 + Cardinality({i \in 1..Len(s) :
        /\ s[i] = "\n"
        /\ (i = 1 \/ s[i - 1] # "\n")
        /\ i < Len(s)
        /\ s[i + 1] = "\n"})

(***************************************************************************)
(* Numbers                                                                 *)
(***************************************************************************)
RECURSIVE Gcd(_, _)
Gcd(a, b) == IF b = 0 THEN a ELSE Gcd(b, a % b)

Abs(a) == IF a < 0 THEN -a ELSE a

NaN == [n |-> 0, d |-> 0]
IsFinite(x) == x.d > 0

\* the rational n/d in lowest terms, d > 0
Rat(n, d) ==
  LET g == Gcd(Abs(n), d) IN [n |-> n \div g, d |-> d \div g]

Int2Rat(k) == [n |-> k, d |-> 1]

Add(x, y) ==
  IF IsFinite(x) /\ IsFinite(y)
  THEN Rat(x.n * y.d + y.n * x.d, x.d * y.d) ELSE NaN
Sub(x, y) ==
  IF IsFinite(x) /\ IsFinite(y)
  THEN Rat(x.n * y.d - y.n * x.d, x.d * y.d) ELSE NaN
Mul(x, y) ==
  IF IsFinite(x) /\ IsFinite(y) THEN Rat(x.n * y.n, x.d * y.d) ELSE NaN
\* the / of JavaScript on non-negative operands: a division by 0 is not finite
Div(x, y) ==
  IF IsFinite(x) /\ IsFinite(y) /\ y.n > 0
  THEN Rat(x.n * y.d, x.d * y.n) ELSE NaN

\* comparisons; every comparison with a non-finite number is false
Lt(x, y) == IsFinite(x) /\ IsFinite(y) /\ x.n * y.d < y.n * x.d
Le(x, y) == IsFinite(x) /\ IsFinite(y) /\ x.n * y.d <= y.n * x.d

\* Math.min, Math.max
MathMin(x, y) ==
  IF IsFinite(x) /\ IsFinite(y) THEN (IF Le(x, y) THEN x ELSE y) ELSE NaN
MathMax(x, y) ==
  IF IsFinite(x) /\ IsFinite(y) THEN (IF Le(x, y) THEN y ELSE x) ELSE NaN

\* Math.round: the nearest integer, a half rounded up
MathRound(x) ==
  IF IsFinite(x) THEN Int2Rat((2 * x.n + x.d) \div (2 * x.d)) ELSE NaN

\* clamp of @/lib/utils
clamp(x, lo, hi) == MathMin(MathMax(x, Int2Rat(lo)), Int2Rat(hi))

RECURSIVE SumFrom(_, _)
SumFrom(xs, i) ==
  IF i > Len(xs) THEN Int2Rat(0) ELSE Add(xs[i], SumFrom(xs, i + 1))

\* average of @/lib/utils: the arithmetic mean
average(xs) == Div(SumFrom(xs, 1), Int2Rat(Len(xs)))

(***************************************************************************)
(* Helper functions of metrics.ts                                          *)
(***************************************************************************)
\* mutant: the pieces are not trimmed
splitIntoSentencesNoTrim(text) ==
  longerThan(splitRuns(text, Terminators), 0)

\* Array.prototype.map((s) => s.trim())
trimAll(pieces) == [i \in 1..Len(pieces) |-> trim(pieces[i])]

splitIntoSentences(text) ==
  longerThan(trimAll(splitRuns(text, Terminators)), 0)

\* mutant: the count is not raised to 1
countSyllablesNoFloor(w) ==
  LET lower == toLowerCase(w)
      word == filter(lower, {i \in 1..Len(lower) : lower[i] \in LowerSet})
      IsVowel(c) == c \in {"a", "e", "i", "o", "u", "y"}
      groups == Cardinality({i \in 1..Len(word) :
                   IsVowel(word[i]) /\ (i = 1 \/ ~IsVowel(word[i - 1]))})
  IN  IF Len(word) = 0 THEN 0
      ELSE IF word[Len(word)] = "e" THEN groups - 1 ELSE groups

countSyllables(w) ==
  LET lower == toLowerCase(w)
      word == filter(lower, {i \in 1..Len(lower) : lower[i] \in LowerSet})
      IsVowel(c) == c \in {"a", "e", "i", "o", "u", "y"}
      groups == Cardinality({i \in 1..Len(word) :
                   IsVowel(word[i]) /\ (i = 1 \/ ~IsVowel(word[i - 1]))})
      count == IF word[Len(word)] = "e" THEN groups - 1 ELSE groups
  IN  IF Len(word) = 0 THEN 0
      ELSE IF count < 1 THEN 1 ELSE count

\* words.reduce((total, word) => total + countSyllables(word), 0): the number
\* of pairs of a word and one of its syllables
syllableSum(words) ==
  Cardinality(UNION {{i} \X (1..countSyllables(words[i])) :
                       i \in 1..Len(words)})

countTotalSyllables(text) == syllableSum(splitWhitespace(toLowerCase(text)))

commonWords ==
  { <<"t","h","e">>, <<"b","e">>, <<"t","o">>, <<"o","f">>, <<"a","n","d">>,
    <<"a">>, <<"i","n">>, <<"t","h","a","t">>, <<"h","a","v","e">>, <<"i">>,
    <<"i","t">>, <<"f","o","r">>, <<"n","o","t">>, <<"o","n">>,
    <<"w","i","t","h">>, <<"h","e">>, <<"a","s">>, <<"y","o","u">>,
    <<"d","o">>, <<"a","t">>, <<"t","h","i","s">>, <<"b","u","t">>,
    <<"h","i","s">>, <<"b","y">>, <<"f","r","o","m">>, <<"t","h","e","y">>,
    <<"w","e">>, <<"s","a","y">>, <<"h","e","r">>, <<"s","h","e">>,
    <<"o","r">>, <<"a","n">>, <<"w","i","l","l">>, <<"m","y">>,
    <<"o","n","e">>, <<"a","l","l">>, <<"w","o","u","l","d">>,
    <<"t","h","e","r","e">>, <<"t","h","e","i","r">>, <<"w","h","a","t">> }

isCommonWord(word) == toLowerCase(word) \in commonWords

(***************************************************************************)
(* calculateCoherence                                                      *)
(***************************************************************************)
transitionWords ==
  { <<"h","o","w","e","v","e","r">>, <<"t","h","e","r","e","f","o","r","e">>,
    <<"f","u","r","t","h","e","r","m","o","r","e">>,
    <<"m","o","r","e","o","v","e","r">>,
    <<"a","d","d","i","t","i","o","n","a","l","l","y">>,
    <<"c","o","n","s","e","q","u","e","n","t","l","y">>,
    <<"n","e","v","e","r","t","h","e","l","e","s","s">>,
    <<"m","e","a","n","w","h","i","l","e">>,
    <<"s","i","m","i","l","a","r","l","y">>,
    <<"l","i","k","e","w","i","s","e">>, <<"t","h","u","s">>,
    <<"h","e","n","c","e">>, <<"a","c","c","o","r","d","i","n","g","l","y">>,
    <<"b","e","s","i","d","e","s">>, <<"a","l","s","o">>,
    <<"t","h","e","n">>, <<"n","e","x","t">>,
    <<"f","i","n","a","l","l","y">>, <<"f","i","r","s","t">>,
    <<"s","e","c","o","n","d">>, <<"t","h","i","r","d">>,
    <<"l","a","s","t","l","y">>, <<"i","n","d","e","e","d">>,
    <<"c","e","r","t","a","i","n","l","y">> }

\* mutant: the overlap is divided by the number of words of the next sentence
pairScoreNextDenominator(current, next) ==
  LET currentWords == Range(longerThan(splitWhitespace(current), 3))
      nextWords == Range(longerThan(splitWhitespace(next), 3))
      intersection == currentWords \cap nextWords
      size == Cardinality(nextWords)
      overlapRatio == Div(Int2Rat(Cardinality(intersection)),
                          Int2Rat(IF size > 1 THEN size ELSE 1))
      hasTransition == \E word \in transitionWords : includes(next, word)
      base == Mul(overlapRatio, Int2Rat(70))
  IN  clamp(IF hasTransition THEN Add(base, Int2Rat(30)) ELSE base, 0, 100)

\* the score of the sentence pair (current, next), both lower-cased
pairScore(current, next) ==
  LET currentWords == Range(longerThan(splitWhitespace(current), 3))
      nextWords == Range(longerThan(splitWhitespace(next), 3))
      intersection == currentWords \cap nextWords
      size == Cardinality(currentWords)
      overlapRatio == Div(Int2Rat(Cardinality(intersection)),
                          Int2Rat(IF size > 1 THEN size ELSE 1))
      hasTransition == \E word \in transitionWords : includes(next, word)
      base == Mul(overlapRatio, Int2Rat(70))
  IN  clamp(IF hasTransition THEN Add(base, Int2Rat(30)) ELSE base, 0, 100)

RECURSIVE totalScoreFrom(_, _)
totalScoreFrom(sentences, i) ==
  IF i > Len(sentences) - 1 THEN Int2Rat(0)
  ELSE Add(pairScore(toLowerCase(sentences[i]), toLowerCase(sentences[i + 1])),
           totalScoreFrom(sentences, i + 1))

\* the mean of the pair scores plus the paragraph bonus, before the clamp
coherenceUnclamped(text) ==
  LET sentences == splitIntoSentences(text)
      coherenceScore == Div(totalScoreFrom(sentences, 1),
                            Int2Rat(Len(sentences) - 1))
      paragraphs == paragraphCount(text)
      structureBonus == IF paragraphs * 2 < 10 THEN paragraphs * 2 ELSE 10
  IN  Add(coherenceScore, Int2Rat(structureBonus))

\* mutant: the final clamp is left out
calculateCoherenceNoClamp(text) ==
  LET sentences == splitIntoSentences(text)
  IN  IF Len(sentences) = 0 THEN Int2Rat(0)
      ELSE IF Len(sentences) = 1 THEN Int2Rat(85)
      ELSE coherenceUnclamped(text)

\* mutant: a single sentence also gets the paragraph bonus
calculateCoherenceSingleBonus(text) ==
  LET sentences == splitIntoSentences(text)
      paragraphs == paragraphCount(text)
      structureBonus == IF paragraphs * 2 < 10 THEN paragraphs * 2 ELSE 10
  IN  IF Len(sentences) = 0 THEN Int2Rat(0)
      ELSE IF Len(sentences) = 1 THEN Int2Rat(85 + structureBonus)
      ELSE clamp(coherenceUnclamped(text), 0, 100)

calculateCoherence(text) ==
  LET sentences == splitIntoSentences(text)
  IN  IF Len(sentences) = 0 THEN Int2Rat(0)
      ELSE IF Len(sentences) = 1 THEN Int2Rat(85)
      ELSE clamp(coherenceUnclamped(text), 0, 100)

(***************************************************************************)
(* calculateCompleteness                                                   *)
(***************************************************************************)
\* /for example|such as|e\.g\.|i\.e\.|specifically|instance/i
examplePatterns ==
  { <<"f","o","r"," ","e","x","a","m","p","l","e">>,
    <<"s","u","c","h"," ","a","s">>, <<"e",".","g",".">>,
    <<"i",".","e",".">>, <<"s","p","e","c","i","f","i","c","a","l","l","y">>,
    <<"i","n","s","t","a","n","c","e">> }

\* /first|second|third|finally/i
ordinalPatterns ==
  { <<"f","i","r","s","t">>, <<"s","e","c","o","n","d">>,
    <<"t","h","i","r","d">>, <<"f","i","n","a","l","l","y">> }

\* RegExp.prototype.test of an alternation of literals with the i flag
testAny(patterns, s) == \E p \in patterns : includes(toLowerCase(s), p)

\* the end of the match of /\n[\s]*[-*\d]+\.?[\s]/ that starts at i, or 0:
\* a newline, the longest run of white space, the longest non-empty run of
\* list characters, an optional period, one white-space character
listMatchEnd(s, i) ==
  IF i > Len(s) \/ s[i] # "\n" THEN 0
  ELSE LET j == RunEnd(s, i + 1, WhiteSpace)
           k == RunEnd(s, j, ListChars)
           e == IF k <= Len(s) /\ s[k] = "." THEN k + 1 ELSE k
       IN  IF k > j /\ e <= Len(s) /\ s[e] \in WhiteSpace THEN e ELSE 0

\* /\n[\s]*[-*\d]+\.?[\s]/.test(s)
hasListLine(s) == \E i \in 1..Len(s) : listMatchEnd(s, i) > 0

\* s.split(/\.\s+/).length: one more than the number of periods that are
\* followed by white space
periodSplitLength(s) ==
  1 + Cardinality({i \in 1..(Len(s) - 1) :
                     s[i] = "." /\ s[i + 1] \in WhiteSpace})

\* what the key terms promptWords and each pattern add to the score
completenessTerms(promptWords, response) ==
  LET responseLower == toLowerCase(response)
      addressedTerms == Cardinality({i \in 1..Len(promptWords) :
                            includes(responseLower, promptWords[i])})
  IN  [ termCoverage |-> Mul(Div(Int2Rat(addressedTerms),
                                 Int2Rat(Len(promptWords))), Int2Rat(60)),
        examples |-> IF testAny(examplePatterns, response) THEN 15 ELSE 0,
        structured |-> IF hasListLine(response)
                          \/ testAny(ordinalPatterns, response)
                       THEN 15 ELSE 0,
        details |-> IF Len(response) > 200 /\ periodSplitLength(response) >= 3
                    THEN 10 ELSE 0 ]

\* the clamped sum of the term coverage and the pattern bonuses t
completenessSum(t) ==
  clamp(Add(t.termCoverage, Int2Rat(t.examples + t.structured + t.details)),
        0, 100)

\* the score for the key terms promptWords of the prompt
completenessFor(promptWords, response) ==
  IF Len(promptWords) = 0 THEN Int2Rat(75)
  ELSE completenessSum(completenessTerms(promptWords, response))

\* the key terms of the prompt
keyTerms(prompt) ==
  LET promptLower == toLowerCase(prompt)
      long == longerThan(splitWhitespace(promptLower), 3)
  IN  filter(long, {i \in 1..Len(long) : ~isCommonWord(long[i])})

\* mutant: the stop words are not filtered out of the prompt's terms
calculateCompletenessKeepStopWords(prompt, response) ==
  completenessFor(longerThan(splitWhitespace(toLowerCase(prompt)), 3),
                  response)

calculateCompleteness(prompt, response) ==
  completenessFor(keyTerms(prompt), response)

(***************************************************************************)
(* calculateReadability                                                    *)
(***************************************************************************)
\* the terms of the score of a text that has words and sentences: the clamped
\* Flesch score, the numbers of long sentences and of sentences, and the bonus
readabilityTerms(text) ==
  LET sentences == splitIntoSentences(text)
      words == longerThan(splitWhitespace(text), 0)
      syllables == countTotalSyllables(text)
      avgWordsPerSentence == Div(Int2Rat(Len(words)), Int2Rat(Len(sentences)))
      avgSyllablesPerWord == Div(Int2Rat(syllables), Int2Rat(Len(words)))
      \* 206.835 - 1.015 * avgWordsPerSentence - 84.6 * avgSyllablesPerWord
      fleschScore == Sub(Sub(Rat(206835, 1000),
                             Mul(Rat(1015, 1000), avgWordsPerSentence)),
                         Mul(Rat(846, 10), avgSyllablesPerWord))
  IN  [ readabilityScore |-> clamp(fleschScore, 0, 100),
        longSentences |-> Cardinality({i \in 1..Len(sentences) :
                             splitLength(sentences[i], WhiteSpace) > 40}),
        sentences |-> Len(sentences),
        paragraphBonus |-> IF paragraphCount(text) > 1 THEN 5 ELSE 0 ]

\* (longSentences / sentences.length) * 20
longSentencePenalty(t) ==
  Mul(Div(Int2Rat(t.longSentences), Int2Rat(t.sentences)), Int2Rat(20))

\* mutant: the penalty of the long sentences is added instead of subtracted
readabilitySumPenaltyAdded(t) ==
  clamp(Add(Add(t.readabilityScore, longSentencePenalty(t)),
            Int2Rat(t.paragraphBonus)), 0, 100)

\* the clamped score minus the penalty plus the bonus, clamped
readabilitySum(t) ==
  clamp(Add(Sub(t.readabilityScore, longSentencePenalty(t)),
            Int2Rat(t.paragraphBonus)), 0, 100)

\* the score of a text that has words and sentences
readabilityFormula(text) == readabilitySum(readabilityTerms(text))

\* mutant: no early return for a text without words or sentences
calculateReadabilityUnguarded(text) == readabilityFormula(text)

\* mutant: the early return looks at the words only
calculateReadabilityWordsOnly(text) ==
  LET words == longerThan(splitWhitespace(text), 0)
  IN  IF Len(words) = 0 THEN Int2Rat(0)
      ELSE readabilityFormula(text)

calculateReadability(text) ==
  LET sentences == splitIntoSentences(text)
      words == longerThan(splitWhitespace(text), 0)
  IN  IF Len(words) = 0 \/ Len(sentences) = 0 THEN Int2Rat(0)
      ELSE readabilityFormula(text)

(***************************************************************************)
(* calculateLengthAppropriateness                                          *)
(***************************************************************************)
\* /list|enumerate|steps|how to/i
listPromptPatterns ==
  { <<"l","i","s","t">>, <<"e","n","u","m","e","r","a","t","e">>,
    <<"s","t","e","p","s">>, <<"h","o","w"," ","t","o">> }

\* /explain|describe|discuss|analyze/i
explainPromptPatterns ==
  { <<"e","x","p","l","a","i","n">>, <<"d","e","s","c","r","i","b","e">>,
    <<"d","i","s","c","u","s","s">>, <<"a","n","a","l","y","z","e">> }

\* /yes|no|true|false|choose|select/i
choicePromptPatterns ==
  { <<"y","e","s">>, <<"n","o">>, <<"t","r","u","e">>,
    <<"f","a","l","s","e">>, <<"c","h","o","o","s","e">>,
    <<"s","e","l","e","c","t">> }

\* mutant: the first matching pattern wins instead of the last
expectedRangeFirstWins(prompt) ==
  LET promptWords == splitLength(prompt, WhiteSpace)
      base == IF promptWords < 10 THEN <<30, 200>>
              ELSE IF promptWords < 30 THEN <<50, 400>>
              ELSE <<100, 800>>
      r1 == IF testAny(choicePromptPatterns, prompt) THEN <<20, 150>> ELSE base
      r2 == IF testAny(explainPromptPatterns, prompt) THEN <<80, 500>> ELSE r1
  IN  IF testAny(listPromptPatterns, prompt) THEN <<50, 600>> ELSE r2

\* the expected range [min, max] of the response's word count
expectedRange(prompt) ==
  LET promptWords == splitLength(prompt, WhiteSpace)
      base == IF promptWords < 10 THEN <<30, 200>>
              ELSE IF promptWords < 30 THEN <<50, 400>>
              ELSE <<100, 800>>
      r1 == IF testAny(listPromptPatterns, prompt) THEN <<50, 600>> ELSE base
      r2 == IF testAny(explainPromptPatterns, prompt) THEN <<80, 500>> ELSE r1
  IN  IF testAny(choicePromptPatterns, prompt) THEN <<20, 150>> ELSE r2

\* mutant: the penalty of a short response is returned instead of subtracted
lengthScoreInverted(responseWords, expectedMin, expectedMax) ==
  IF responseWords < expectedMin
  THEN MathMax(Int2Rat(0),
               Mul(Div(Int2Rat(expectedMin - responseWords),
                       Int2Rat(expectedMin)), Int2Rat(80)))
  ELSE IF responseWords > expectedMax
  THEN MathMax(Int2Rat(0),
               Sub(Int2Rat(100),
                   Mul(Div(Int2Rat(responseWords - expectedMax),
                           Int2Rat(expectedMax)), Int2Rat(50))))
  ELSE Int2Rat(100)

\* the score of responseWords words against the range [expectedMin, expectedMax]
lengthScore(responseWords, expectedMin, expectedMax) ==
  IF responseWords < expectedMin
  THEN MathMax(Int2Rat(0),
               Sub(Int2Rat(100),
                   Mul(Div(Int2Rat(expectedMin - responseWords),
                           Int2Rat(expectedMin)), Int2Rat(80))))
  ELSE IF responseWords > expectedMax
  THEN MathMax(Int2Rat(0),
               Sub(Int2Rat(100),
                   Mul(Div(Int2Rat(responseWords - expectedMax),
                           Int2Rat(expectedMax)), Int2Rat(50))))
  ELSE Int2Rat(100)

\* response.split(/\s+/).length
responseWordCount(response) == splitLength(response, WhiteSpace)

calculateLengthAppropriateness(prompt, response) ==
  LET range == expectedRange(prompt)
  IN  clamp(lengthScore(responseWordCount(response), range[1], range[2]),
            0, 100)

(***************************************************************************)
(* calculateStructuralQuality                                              *)
(***************************************************************************)
\* text.match(/\n[\s]*[-*\d]+\.?[\s]/g).length: the matches found from left
\* to right, each search starting where the previous match ended
RECURSIVE listMatchesFrom(_, _)
listMatchesFrom(s, i) ==
  LET found == {j \in i..Len(s) : listMatchEnd(s, j) > 0}
      first == nth(found, 1)
  IN  IF found = {} THEN 0
      ELSE 1 + listMatchesFrom(s, listMatchEnd(s, first) + 1)

\* the code pattern: a fence of three backquotes, anything, a fence; or a
\* backquote, one or more other characters, a backquote
hasCodeBlock(s) ==
  LET Fence(i) == i + 2 <= Len(s) /\ \A k \in i..(i + 2) : s[k] = Backquote
  IN  \/ \E i \in 1..Len(s) :
            Fence(i) /\ \E j \in (i + 3)..Len(s) : Fence(j)
      \/ \E i \in 1..Len(s) :
            /\ s[i] = Backquote
            /\ \E j \in (i + 2)..Len(s) :
                  /\ s[j] = Backquote
                  /\ \A k \in (i + 1)..(j - 1) : s[k] # Backquote

\* ^ and $ with the m flag
LineStart(s, i) == i = 1 \/ s[i - 1] = "\n"
LineEnd(s, i) == i = Len(s) \/ s[i + 1] = "\n"

\* /^#{1,6}\s+.+$/m.test(s)
hasMarkdownHeader(s) ==
  \E i \in 1..Len(s) :
    /\ LineStart(s, i)
    /\ s[i] = "#"
    /\ \E h \in 1..6 :
          /\ \A k \in i..(i + h - 1) : k <= Len(s) /\ s[k] = "#"
          /\ \E m \in 1..(Len(s) - i - h) :
                /\ \A k \in (i + h)..(i + h + m - 1) : s[k] \in WhiteSpace
                /\ s[i + h + m] # "\n"

\* /^[A-Z][^.!?]+:$/m.test(s)
hasSectionLabel(s) ==
  \E i \in 1..Len(s) :
    /\ LineStart(s, i)
    /\ s[i] \in UpperSet
    /\ \E r \in (i + 2)..Len(s) :
          /\ s[r] = ":"
          /\ LineEnd(s, r)
          /\ \A k \in (i + 1)..(r - 1) : s[k] \notin Terminators

\* (text.match(/\n{4,}/g) || []).length
excessiveBreakCount(s) ==
  Cardinality({i \in 1..(Len(s) - 3) :
     /\ \A k \in i..(i + 3) : s[k] = "\n"
     /\ (i = 1 \/ s[i - 1] # "\n")})

\* (text.match(/c/g) || []).length
charCount(s, c) == Cardinality({i \in 1..Len(s) : s[i] = c})

\* the sentences s with /[.!?]$/.test(s.trim())
properlyEndedCount(sentences) ==
  Cardinality({i \in 1..Len(sentences) :
     /\ Len(trim(sentences[i])) > 0
     /\ trim(sentences[i])[Len(trim(sentences[i]))] \in Terminators})

\* mutant: the parentheses count as balanced when none is left unopened
structuralSignalsParenAtLeast(text) ==
  LET paragraphs == paragraphCount(text)
      sentences == splitIntoSentences(text)
  IN  [ paragraphs |->
          IF paragraphs > 1
          THEN Int2Rat(IF paragraphs * 3 < 15 THEN paragraphs * 3 ELSE 15)
          ELSE Int2Rat(0),
        lists |-> Int2Rat(IF listMatchesFrom(text, 1) >= 2 THEN 10 ELSE 0),
        code |-> Int2Rat(IF hasCodeBlock(text) THEN 5 ELSE 0),
        headers |->
          Int2Rat(IF hasMarkdownHeader(text) \/ hasSectionLabel(text)
                  THEN 5 ELSE 0),
        punctuation |->
          IF Len(sentences) > 0
          THEN Mul(Div(Int2Rat(properlyEndedCount(sentences)),
                       Int2Rat(Len(sentences))), Int2Rat(10))
          ELSE Int2Rat(0),
        breaks |-> Int2Rat(-5 * excessiveBreakCount(text)),
        parens |->
          Int2Rat(IF charCount(text, "(") >= charCount(text, ")")
                  THEN 5 ELSE 0) ]

\* what each check of calculateStructuralQuality adds to the base score
structuralSignals(text) ==
  LET paragraphs == paragraphCount(text)
      sentences == splitIntoSentences(text)
  IN  [ paragraphs |->
          IF paragraphs > 1
          THEN Int2Rat(IF paragraphs * 3 < 15 THEN paragraphs * 3 ELSE 15)
          ELSE Int2Rat(0),
        lists |-> Int2Rat(IF listMatchesFrom(text, 1) >= 2 THEN 10 ELSE 0),
        code |-> Int2Rat(IF hasCodeBlock(text) THEN 5 ELSE 0),
        headers |->
          Int2Rat(IF hasMarkdownHeader(text) \/ hasSectionLabel(text)
                  THEN 5 ELSE 0),
        punctuation |->
          IF Len(sentences) > 0
          THEN Mul(Div(Int2Rat(properlyEndedCount(sentences)),
                       Int2Rat(Len(sentences))), Int2Rat(10))
          ELSE Int2Rat(0),
        breaks |-> Int2Rat(-5 * excessiveBreakCount(text)),
        parens |->
          Int2Rat(IF charCount(text, "(") = charCount(text, ")")
                  THEN 5 ELSE 0) ]

SignalNames ==
  {"paragraphs", "lists", "code", "headers", "punctuation", "breaks", "parens"}

RECURSIVE SumOver(_, _)
SumOver(f, names) ==
  IF names = {} THEN Int2Rat(0)
  ELSE LET x == CHOOSE y \in names : TRUE
       IN  Add(f[x], SumOver(f, names \ {x}))

BaseScore == 60

\* the score before the final clamp
structuralRawScore(text) ==
  Add(Int2Rat(BaseScore), SumOver(structuralSignals(text), SignalNames))

calculateStructuralQuality(text) == clamp(structuralRawScore(text), 0, 100)

(***************************************************************************)
(* calculateMetrics                                                        *)
(***************************************************************************)
\* the five analyzers' values, unrounded
analyzerValues(prompt, response) ==
  [ coherence |-> calculateCoherence(response),
    completeness |-> calculateCompleteness(prompt, response),
    readability |-> calculateReadability(response),
    lengthAppropriatenss |-> calculateLengthAppropriateness(prompt, response),
    structuralQuality |-> calculateStructuralQuality(response) ]

\* mutant: overall is the mean of the five rounded fields
calculateMetricsMeanOfRounded(prompt, response) ==
  LET v == analyzerValues(prompt, response)
      overall == average(<<MathRound(v.coherence), MathRound(v.completeness),
                           MathRound(v.readability),
                           MathRound(v.lengthAppropriatenss),
                           MathRound(v.structuralQuality)>>)
  IN  [ coherence |-> MathRound(v.coherence),
        completeness |-> MathRound(v.completeness),
        readability |-> MathRound(v.readability),
        lengthAppropriatenss |-> MathRound(v.lengthAppropriatenss),
        structuralQuality |-> MathRound(v.structuralQuality),
        overall |-> MathRound(overall) ]

\* the rounded values v of the analyzers and their rounded mean
roundedMetrics(v) ==
  [ coherence |-> MathRound(v.coherence),
    completeness |-> MathRound(v.completeness),
    readability |-> MathRound(v.readability),
    lengthAppropriatenss |-> MathRound(v.lengthAppropriatenss),
    structuralQuality |-> MathRound(v.structuralQuality),
    overall |-> MathRound(average(<<v.coherence, v.completeness,
                                    v.readability, v.lengthAppropriatenss,
                                    v.structuralQuality>>)) ]

calculateMetrics(prompt, response) ==
  roundedMetrics(analyzerValues(prompt, response))


(***************************************************************************)
(* getMetricExplanations                                                   *)
(***************************************************************************)
\* the strings of getCoherenceDetails, from the highest tier to the lowest
coherenceDetails ==
  << "Excellent logical flow with strong connections between ideas.",
     "Good coherence with mostly clear transitions.",
     "Moderate coherence; some ideas could be better connected.",
     "Poor coherence; ideas seem disconnected or jumpy." >>

\* the strings of getCompletenessDetails, from the highest tier to the lowest
completenessDetails ==
  << "Thoroughly addresses all aspects of the prompt.",
     "Covers most key points from the prompt.",
     "Addresses some aspects but misses key points.",
     "Incomplete response; many prompt aspects not addressed." >>

\* the strings of getReadabilityDetails, from the highest tier to the lowest
readabilityDetails ==
  << "Very easy to read and understand.",
     "Moderately easy to read; appropriate complexity.",
     "Somewhat difficult to read; complex sentences.",
     "Hard to read; overly complex or poorly structured." >>

\* the strings of getLengthDetails, from the highest tier to the lowest
lengthDetails ==
  << "Optimal length for the given prompt.",
     "Reasonable length; slightly too short or long.",
     "Length is noticeably inappropriate.",
     "Significantly too short or excessively verbose." >>

\* the strings of getStructuralDetails, from the highest tier to the lowest
structuralDetails ==
  << "Well-formatted with clear structure.",
     "Good structure with minor formatting issues.",
     "Basic structure; could use better formatting.",
     "Poor structure; lacks proper formatting." >>

\* mutant: the first tier starts above 80
getCoherenceDetailsStrict(score) ==
  IF Lt(Int2Rat(80), score) THEN coherenceDetails[1]
  ELSE IF Le(Int2Rat(60), score) THEN coherenceDetails[2]
  ELSE IF Le(Int2Rat(40), score) THEN coherenceDetails[3]
  ELSE coherenceDetails[4]

getCoherenceDetails(score) ==
  IF Le(Int2Rat(80), score) THEN coherenceDetails[1]
  ELSE IF Le(Int2Rat(60), score) THEN coherenceDetails[2]
  ELSE IF Le(Int2Rat(40), score) THEN coherenceDetails[3]
  ELSE coherenceDetails[4]

getCompletenessDetails(score) ==
  IF Le(Int2Rat(80), score) THEN completenessDetails[1]
  ELSE IF Le(Int2Rat(60), score) THEN completenessDetails[2]
  ELSE IF Le(Int2Rat(40), score) THEN completenessDetails[3]
  ELSE completenessDetails[4]

getReadabilityDetails(score) ==
  IF Le(Int2Rat(80), score) THEN readabilityDetails[1]
  ELSE IF Le(Int2Rat(60), score) THEN readabilityDetails[2]
  ELSE IF Le(Int2Rat(40), score) THEN readabilityDetails[3]
  ELSE readabilityDetails[4]

getLengthDetails(score) ==
  IF Le(Int2Rat(80), score) THEN lengthDetails[1]
  ELSE IF Le(Int2Rat(60), score) THEN lengthDetails[2]
  ELSE IF Le(Int2Rat(40), score) THEN lengthDetails[3]
  ELSE lengthDetails[4]

getStructuralDetails(score) ==
  IF Le(Int2Rat(80), score) THEN structuralDetails[1]
  ELSE IF Le(Int2Rat(60), score) THEN structuralDetails[2]
  ELSE IF Le(Int2Rat(40), score) THEN structuralDetails[3]
  ELSE structuralDetails[4]

getMetricExplanations(metrics) ==
  << [ name |-> "Coherence",
       score |-> metrics.coherence,
       description |-> "Measures logical flow and topic consistency",
       details |-> getCoherenceDetails(metrics.coherence) ],
     [ name |-> "Completeness",
       score |-> metrics.completeness,
       description |-> "How well the response addresses the prompt",
       details |-> getCompletenessDetails(metrics.completeness) ],
     [ name |-> "Readability",
       score |-> metrics.readability,
       description |-> "How easy the text is to read and understand",
       details |-> getReadabilityDetails(metrics.readability) ],
     [ name |-> "Length Appropriateness",
       score |-> metrics.lengthAppropriatenss,
       description |-> "Whether the response length matches the prompt",
       details |-> getLengthDetails(metrics.lengthAppropriatenss) ],
     [ name |-> "Structural Quality",
       score |-> metrics.structuralQuality,
       description |-> "Formatting and organization quality",
       details |-> getStructuralDetails(metrics.structuralQuality) ] >>

(***************************************************************************)
(* Inputs                                                                  *)
(***************************************************************************)
\* ''
promptEmpty ==
  <<>>

\* 'Is it'
promptIsIt ==
  <<"I","s"," ","i","t">>

\* 'yes'
promptYes ==
  <<"y","e","s">>

\* 'Explain machine learning'
promptExplain ==
  <<"E","x","p","l","a","i","n"," ","m","a","c","h","i","n","e"," ","l","e",
    "a","r","n","i","n","g">>

\* 'what THAT with'
promptStopWords ==
  <<"w","h","a","t"," ","T","H","A","T"," ","w","i","t","h">>

\* 'list also'
promptListAlso ==
  <<"l","i","s","t"," ","a","l","s","o">>

\* 'Machine learning is fun.'
textOneSentence ==
  <<"M","a","c","h","i","n","e"," ","l","e","a","r","n","i","n","g"," ","i",
    "s"," ","f","u","n",".">>

\* 'also abcd. also abcd'
textRepeat ==
  <<"a","l","s","o"," ","a","b","c","d","."," ","a","l","s","o"," ","a","b",
    "c","d">>

\* 'Learning machines explain data! Then nothing else? abcd'
textDrift ==
  <<"L","e","a","r","n","i","n","g"," ","m","a","c","h","i","n","e","s"," ",
    "e","x","p","l","a","i","n"," ","d","a","t","a","!"," ","T","h","e","n",
    " ","n","o","t","h","i","n","g"," ","e","l","s","e","?"," ","a","b","c",
    "d">>

\* '# T\n\n(a)\n\nb\n\nc\n\n`x`\n- a\n- b\n'
textFormatted ==
  <<"#"," ","T","\n","\n","(","a",")","\n","\n","b","\n","\n","c","\n","\n",
    Backquote,"x",Backquote,"\n","-"," ","a","\n","-"," ","b","\n">>

\* 'First:\n- such as a.\n1. b. \n\nc (d'
textList ==
  <<"F","i","r","s","t",":","\n","-"," ","s","u","c","h"," ","a","s"," ",
    "a",".","\n","1","."," ","b","."," ","\n","\n","c"," ","(","d">>

\* 'data learning then explain learning.'
textRounding ==
  <<"d","a","t","a"," ","l","e","a","r","n","i","n","g"," ","t","h","e","n",
    " ","e","x","p","l","a","i","n"," ","l","e","a","r","n","i","n","g",".">>

\* 'Then first\n\nalso'
textTransitions ==
  <<"T","h","e","n"," ","f","i","r","s","t","\n","\n","a","l","s","o">>

\* '- learning'
textFirstLine ==
  <<"-"," ","l","e","a","r","n","i","n","g">>

\* ExclaimRuns sentences 'aaaa! ': more than 200 characters, no period
ExclaimRuns == 34
textExclaim ==
  [i \in 1..(6 * ExclaimRuns) |->
     IF i % 6 = 5 THEN "!" ELSE IF i % 6 = 0 THEN " " ELSE "a"]

\* 'data learning. Learning also helps models'
textOverlap ==
  <<"d","a","t","a"," ","l","e","a","r","n","i","n","g","."," ","L","e","a",
    "r","n","i","n","g"," ","a","l","s","o"," ","h","e","l","p","s"," ","m",
    "o","d","e","l","s">>

\* BreakRuns runs of four newlines, each followed by a letter
BreakRuns == 16
textBreaks == [i \in 1..(5 * BreakRuns) |-> IF i % 5 = 0 THEN "a" ELSE "\n"]

Prompts ==
  {promptEmpty, promptIsIt, promptYes, promptExplain, promptStopWords,
   promptListAlso}

\* every text over Sigma of at most MaxLen characters
Sigma == {"a", " ", ".", "(", ")", "\n"}
MaxLen == 3
ShortTexts == UNION {[1..k -> Sigma] : k \in 0..MaxLen}

Responses ==
  ShortTexts \cup {textOneSentence, textRepeat, textDrift, textFormatted,
                   textList, textTransitions, textRounding,
                   textBreaks, textOverlap}

(***************************************************************************)
(* State: the arguments of a call, the function called last, its result    *)
(***************************************************************************)
VARIABLES prompt, response, call, ret

(***************************************************************************)
(* State of the web service: the environment of the process, the module    *)
(* variables of the LLM service and of the database service, the rows of   *)
(* the database, and the requests being handled.                           *)
(***************************************************************************)
VARIABLES
  OPENAI_API_KEY,  \* process.env.OPENAI_API_KEY: TRUE when a key is set
  DATABASE_URL,    \* process.env.DATABASE_URL: TRUE when it is set
  database,        \* the implementation behind @/services/database
  db,              \* SQLite: TRUE when the handle is open (null before)
  pool,            \* PostgreSQL: TRUE when the pool exists (null before)
  clients,         \* the tasks that hold a client checked out of the pool
  tables,          \* the tables that exist in the database
  experimentRows,  \* the committed rows of table experiments
  responseRows,    \* the committed rows of table responses
  deleted,         \* the identifiers of the experiments deleted so far
  init,            \* the task started by initializeDatabase()
  requests,        \* the request of every slot and its database operation
  idCounter,       \* the number of identifiers generateId() has returned
  received         \* the number of requests received

analyzerVars == <<prompt, response, call, ret>>
environment == <<OPENAI_API_KEY, DATABASE_URL, database>>
storage == <<tables, experimentRows, responseRows, deleted>>

\* what no step of a database operation changes, beside the storage
besideOperations ==
  <<analyzerVars, environment, db, pool, idCounter, received>>

serviceVars ==
  <<environment, db, pool, clients, storage, init, requests, idCounter,
    received>>

vars == <<analyzerVars, serviceVars>>

\* the web service is not running: the analyzers are applied on their own
ServiceDown ==
  /\ OPENAI_API_KEY = FALSE
  /\ DATABASE_URL = FALSE
  /\ database = "sqlite"
  /\ db = FALSE
  /\ pool = FALSE
  /\ clients = {}
  /\ tables = {}
  /\ experimentRows = {}
  /\ responseRows = {}
  /\ deleted = {}
  /\ init = <<>>
  /\ requests = <<>>
  /\ idCounter = 0
  /\ received = 0

Init ==
  /\ prompt \in Prompts
  /\ response \in Responses
  /\ call = "none"
  /\ ret = <<>>
  /\ ServiceDown

\* one function is applied to a pair of arguments
Returns(name, value) ==
  /\ call = "none"
  /\ call' = name
  /\ ret' = value
  /\ UNCHANGED <<prompt, response, serviceVars>>

CallCalculateMetrics ==
  Returns("calculateMetrics", calculateMetrics(prompt, response))

CallCalculateCoherence ==
  Returns("calculateCoherence", calculateCoherence(response))

CallCalculateCompleteness ==
  Returns("calculateCompleteness", calculateCompleteness(prompt, response))

CallCalculateReadability ==
  Returns("calculateReadability", calculateReadability(response))

CallCalculateLengthAppropriateness ==
  Returns("calculateLengthAppropriateness",
          calculateLengthAppropriateness(prompt, response))

CallCalculateStructuralQuality ==
  Returns("calculateStructuralQuality", calculateStructuralQuality(response))

\* the text with the character c put in front of position p
insertAt(text, p, c) ==
  SubSeq(text, 1, p - 1) \o <<c>> \o SubSeq(text, p, Len(text))

\* calculateStructuralQuality of a text with balanced parentheses and of the
\* same text with one more "(" at some position
CallStructuralQualityWithParen ==
  /\ charCount(response, "(") = charCount(response, ")")
  /\ \E p \in 1..(Len(response) + 1) :
       Returns("unmatchedParen",
               [ at |-> p,
                 balanced |-> calculateStructuralQuality(response),
                 unmatched |->
                   calculateStructuralQuality(insertAt(response, p, "(")) ])

Next ==
  \/ CallCalculateMetrics
  \/ CallCalculateCoherence
  \/ CallCalculateCompleteness
  \/ CallCalculateReadability
  \/ CallCalculateLengthAppropriateness
  \/ CallCalculateStructuralQuality
  \/ CallStructuralQualityWithParen

Spec == Init /\ [][Next]_vars

(***************************************************************************)
(* Responses of many words: the response grows by one word or one space    *)
(* at a time, and calculateLengthAppropriateness is applied to it.         *)
(***************************************************************************)
MaxWords == 455

WordPrompts == {promptIsIt, promptYes, promptExplain}

InitWords ==
  /\ prompt \in WordPrompts
  /\ response \in {<<>>, <<" ">>}
  /\ call = "none"
  /\ ret = <<>>
  /\ ServiceDown

EndsInSpace(text) == Len(text) > 0 /\ text[Len(text)] \in WhiteSpace

AppendWord ==
  /\ responseWordCount(response) <= MaxWords
  /\ response' = IF response = <<>> \/ EndsInSpace(response)
                 THEN Append(response, "a")
                 ELSE response \o <<" ", "a">>
  /\ call' = "none"
  /\ ret' = <<>>
  /\ UNCHANGED <<prompt, serviceVars>>

AppendSpace ==
  /\ Len(response) > 0
  /\ ~EndsInSpace(response)
  /\ response' = Append(response, " ")
  /\ call' = "none"
  /\ ret' = <<>>
  /\ UNCHANGED <<prompt, serviceVars>>

NextWords ==
  \/ AppendWord
  \/ AppendSpace
  \/ CallCalculateLengthAppropriateness

SpecWords == InitWords /\ [][NextWords]_vars

(***************************************************************************)
(* Prompts of many words and of several types: the prompt is drawn from    *)
(* the texts made of an optional leading space, a choice of the cue words  *)
(* "list", "explain" and "yes", up to MaxPromptWords words "a" and an      *)
(* optional trailing space.                                                *)
(***************************************************************************)
MaxPromptWords == 31

\* k words "a" with one space between them
fillerWords(k) == [i \in 1..(2 * k - 1) |-> IF i % 2 = 1 THEN "a" ELSE " "]

\* the word w and a space, when the prompt has the cue
cueWord(present, w) == IF present THEN w \o <<" ">> ELSE <<>>

PromptTexts ==
  { lead \o cueWord(l, <<"l","i","s","t">>)
         \o cueWord(e, <<"e","x","p","l","a","i","n">>)
         \o cueWord(y, <<"y","e","s">>)
         \o fillerWords(k) \o trail :
      lead \in {<<>>, <<" ">>}, l \in BOOLEAN, e \in BOOLEAN, y \in BOOLEAN,
      k \in 1..MaxPromptWords, trail \in {<<>>, <<" ">>} }

\* a response of LongWords words
LongWords == 900
textLong == fillerWords(LongWords)

InitPrompts ==
  /\ prompt \in PromptTexts
  /\ response \in {textOneSentence, textLong}
  /\ call = "none"
  /\ ret = <<>>
  /\ ServiceDown

NextPrompts == CallCalculateLengthAppropriateness

SpecPrompts == InitPrompts /\ [][NextPrompts]_vars

(***************************************************************************)
(* Responses of long sentences: the response grows by one sentence of      *)
(* words "a" or by one paragraph break at a time, and calculateReadability *)
(* is applied to it.                                                       *)
(***************************************************************************)
MaxSentences == 2

\* the numbers of words of a sentence, around the 40 words of a long one
SentenceLengths == {1, 39, 40, 41, 42}

AppendSentence ==
  /\ charCount(response, ".") < MaxSentences
  /\ \E n \in SentenceLengths :
       response' = response
                     \o (IF response = <<>> \/ EndsInSpace(response)
                         THEN <<>> ELSE <<" ">>)
                     \o fillerWords(n) \o <<".">>
  /\ call' = "none"
  /\ ret' = <<>>
  /\ UNCHANGED <<prompt, serviceVars>>

AppendParagraphBreak ==
  /\ Len(response) > 0
  /\ ~EndsInSpace(response)
  /\ charCount(response, "\n") = 0
  /\ response' = response \o <<"\n", "\n">>
  /\ call' = "none"
  /\ ret' = <<>>
  /\ UNCHANGED <<prompt, serviceVars>>

InitSentences ==
  /\ prompt = promptEmpty
  /\ response = <<>>
  /\ call = "none"
  /\ ret = <<>>
  /\ ServiceDown

NextSentences ==
  \/ AppendSentence
  \/ AppendParagraphBreak
  \/ CallCalculateReadability

SpecSentences == InitSentences /\ [][NextSentences]_vars

(***************************************************************************)
(* Responses with list markers and of more than 200 characters, to which   *)
(* calculateCompleteness is applied.                                       *)
(***************************************************************************)
InitCompleteness ==
  /\ prompt \in Prompts
  /\ response \in Responses \cup {textFirstLine, textExclaim}
  /\ call = "none"
  /\ ret = <<>>
  /\ ServiceDown

NextCompleteness == CallCalculateCompleteness

SpecCompleteness == InitCompleteness /\ [][NextCompleteness]_vars

(***************************************************************************)
(* Score sets: getMetricExplanations is applied to the score sets whose    *)
(* fields are at the ends of the tiers, one field differing from the rest. *)
(***************************************************************************)
TierEnds == {0, 39, 40, 59, 60, 79, 80, 100}

ScoreSets ==
  { [f \in {"coherence", "completeness", "readability",
            "lengthAppropriatenss", "structuralQuality", "overall"} |->
       Int2Rat(IF f = g THEN t ELSE s)] :
      s \in TierEnds, t \in TierEnds,
      g \in {"coherence", "completeness", "readability",
             "lengthAppropriatenss", "structuralQuality"} }

CallGetMetricExplanations ==
  \E metrics \in ScoreSets :
    Returns("getMetricExplanations",
            [ metrics |-> metrics,
              explanations |-> getMetricExplanations(metrics) ])

InitExplain ==
  /\ prompt = promptEmpty
  /\ response = <<>>
  /\ call = "none"
  /\ ret = <<>>
  /\ ServiceDown

NextExplain == CallGetMetricExplanations

SpecExplain == InitExplain /\ [][NextExplain]_vars

(***************************************************************************)
(* The helper functions countSyllables and splitIntoSentences, applied to  *)
(* every text of at most MaxHelperLen characters over the characters of a  *)
(* word and over the characters of a sentence.                             *)
(***************************************************************************)
MaxHelperLen == 4

\* vowels, a consonant, an upper-case letter, a character that is no letter
WordSigma == {"a", "e", "y", "b", "E", "1"}
\* letters, white space and the three terminators
SentenceSigma == {"a", "b", " ", ".", "!", "?"}

\* 'apple'
wordApple ==
  <<"a","p","p","l","e">>

HelperTexts ==
  UNION {[1..k -> WordSigma] \cup [1..k -> SentenceSigma] :
           k \in 0..MaxHelperLen}
    \cup {wordApple}

CallCountSyllables ==
  Returns("countSyllables", countSyllables(response))

CallSplitIntoSentences ==
  Returns("splitIntoSentences", splitIntoSentences(response))

InitHelpers ==
  /\ prompt = promptEmpty
  /\ response \in HelperTexts
  /\ call = "none"
  /\ ret = <<>>
  /\ ServiceDown

NextHelpers ==
  \/ CallCountSyllables
  \/ CallSplitIntoSentences

SpecHelpers == InitHelpers /\ [][NextHelpers]_vars

(***************************************************************************)
(* The web service.  A request body is a JSON value; a JSON value carries  *)
(* its type, the text of a string and the exact rational of a number.      *)
(***************************************************************************)
JString(s) == [type |-> "string", text |-> s, number |-> NaN]
JNumber(x) == [type |-> "number", text |-> <<>>, number |-> x]
JUndefined == [type |-> "undefined", text |-> <<>>, number |-> NaN]

\* the name of a model in a request body: a string, or no string
ModelName(name) == [type |-> "string", name |-> name]
NoModelName(type) == [type |-> type, name |-> ""]

\* one issue of a ZodError: where it is and what is wrong
issue(path, index, message) ==
  [path |-> path, index |-> index, message |-> message]

\* z.string().min(1, "Prompt is required").max(5000, "Prompt too long")
MaxPromptLength == 5000

promptIssues(v) ==
  IF v.type # "string" THEN {issue("prompt", 0, "Expected string")}
  ELSE IF Len(v.text) < 1 THEN {issue("prompt", 0, "Prompt is required")}
  ELSE IF Len(v.text) > MaxPromptLength
       THEN {issue("prompt", 0, "Prompt too long")}
  ELSE {}

\* z.number().min(lo).max(hi) at parameters[index].path
numberIssues(v, lo, hi, path, index) ==
  IF v.type # "number" \/ ~IsFinite(v.number)
  THEN {issue(path, index, "Expected number")}
  ELSE IF Lt(v.number, Int2Rat(lo))
       THEN {issue(path, index, "Number must be greater than or equal to")}
  ELSE IF Lt(Int2Rat(hi), v.number)
       THEN {issue(path, index, "Number must be less than or equal to")}
  ELSE {}

\* z.array(z.object({temperature, topP})).min(1, ...).max(20, ...)
MinParameterSets == 1
MaxParameterSets == 20

parametersIssues(list) ==
  (IF Len(list) < MinParameterSets
   THEN {issue("parameters", 0, "At least one parameter set required")}
   ELSE {})
  \cup
  (IF Len(list) > MaxParameterSets
   THEN {issue("parameters", 0, "Too many parameter sets")}
   ELSE {})
  \cup
  UNION {numberIssues(list[i].temperature, 0, 2, "temperature", i)
           \cup numberIssues(list[i].topP, 0, 1, "topP", i) :
         i \in 1..Len(list)}

\* z.string().optional().default("gpt-4o-mini")
modelIssues(v) ==
  IF v.type \in {"string", "undefined"} THEN {}
  ELSE {issue("model", 0, "Expected string")}

\* generateRequestSchema.parse(body): the issues of the ZodError it throws,
\* none when it returns
schemaIssues(body) ==
  promptIssues(body.prompt) \cup parametersIssues(body.parameters)
    \cup modelIssues(body.model)

\* the LLMParameters of a parsed parameter set
parsedParameters(list) ==
  [i \in 1..Len(list) |->
     [ temperature |-> list[i].temperature.number,
       topP |-> list[i].topP.number ]]

\* the value generateRequestSchema.parse(body) returns
validatedData(body) ==
  [ prompt |-> body.prompt.text,
    parameters |-> parsedParameters(body.parameters),
    model |-> IF body.model.type = "undefined" THEN "gpt-4o-mini"
              ELSE body.model.name ]

\* validateParameters(parameters).errors
validateParametersErrors(parameters) ==
  (IF Lt(parameters.temperature, Int2Rat(0))
        \/ Lt(Int2Rat(2), parameters.temperature)
   THEN <<"Temperature must be between 0 and 2">> ELSE <<>>)
  \o
  (IF Lt(parameters.topP, Int2Rat(0)) \/ Lt(Int2Rat(1), parameters.topP)
   THEN <<"Top P must be between 0 and 1">> ELSE <<>>)

validateParameters(parameters) ==
  [ valid |-> Len(validateParametersErrors(parameters)) = 0,
    errors |-> validateParametersErrors(parameters) ]

(***************************************************************************)
(* The LLM service                                                         *)
(***************************************************************************)
\* const USE_MOCK = !process.env.OPENAI_API_KEY
USE_MOCK == ~OPENAI_API_KEY

\* the OpenAI client of the module: created when a key is set, null otherwise
openai == ~USE_MOCK /\ OPENAI_API_KEY

\* prompt.slice(0, 50)
slice50(text) == SubSeq(text, 1, IF Len(text) < 50 THEN Len(text) ELSE 50)

\* the response template generateResponseVariations selects, by name
lowTemperatureTemplate(text) ==
  IF includes(toLowerCase(text), <<"e","x","p","l","a","i","n">>)
       \/ includes(toLowerCase(text), <<"w","h","a","t"," ","i","s">>)
  THEN "explanation" ELSE "analysis"

mediumTemperatureTemplate(text) ==
  IF includes(toLowerCase(text), <<"h","o","w">>)
       \/ includes(toLowerCase(text), <<"s","t","e","p","s">>)
  THEN "steps" ELSE "thoughts"

highTemperatureTemplate(text) ==
  IF includes(toLowerCase(text), <<"c","r","e","a","t","i","v","e">>)
       \/ includes(toLowerCase(text), <<"i","m","a","g","i","n","e">>)
  THEN "creative" ELSE "ideas"

\* a content is a template with a text put into it: the template of a mock
\* response quotes the prompt, a completion is its own text, and the content
\* of a failed generation quotes the message of the error
Content(template, text, message) ==
  [template |-> template, text |-> text, message |-> message]

\* the text generateResponseVariations returns
generateResponseVariations(text, parameters) ==
  Content(IF Lt(parameters.temperature, Rat(3, 10))
          THEN lowTemperatureTemplate(text)
          ELSE IF Lt(parameters.temperature, Rat(8, 10))
               THEN mediumTemperatureTemplate(text)
          ELSE highTemperatureTemplate(text),
          slice50(text), "")

\* template.split(/\s+/).length of every template around an empty quotation
templateWords ==
  [ explanation |-> 117, analysis |-> 102, steps |-> 152, thoughts |-> 130,
    creative |-> 166, ideas |-> 182 ]

\* content.split(/\s+/).length: the quotation stands between quotation marks,
\* so every run of white space in it starts one more piece
contentWords(content) ==
  templateWords[content.template] + Cardinality(runStarts(content.text, WhiteSpace))

\* the result of generateMockResponse
generateMockResponse(text, parameters) ==
  [ content |-> generateResponseVariations(text, parameters),
    tokenCount |->
      (13 * contentWords(generateResponseVariations(text, parameters))) \div 10,
    model |-> "mock-gpt-4" ]

\* the outcome of generateResponse: a result returned or an error thrown
returned(value) == [returned |-> TRUE, value |-> value, error |-> ""]
thrown(message) == [returned |-> FALSE, value |-> <<>>, error |-> message]

\* response.choices[0]?.message?.content || ""
orEmpty(v) == IF v.type = "string" THEN v.text ELSE <<>>
\* response.usage?.total_tokens || 0; the number of tokens is whole
orZero(v) == IF v.type = "number" THEN v.number.n \div v.number.d ELSE 0

\* generateResponse, where api is what openai.chat.completions.create did:
\* a completion or an error with a code
generateResponseFallbackQuotaOnly(text, parameters, model, api) ==
  IF USE_MOCK \/ ~openai
  THEN returned(generateMockResponse(text, parameters))
  ELSE IF api.ok
       THEN returned([ content |-> Content("", orEmpty(api.content), ""),
                       tokenCount |-> orZero(api.total_tokens),
                       model |-> api.model ])
  ELSE IF api.code = "insufficient_quota"
       THEN returned(generateMockResponse(text, parameters))
  ELSE thrown("LLM generation failed: " \o api.message)

generateResponse(text, parameters, model, api) ==
  IF USE_MOCK \/ ~openai
  THEN returned(generateMockResponse(text, parameters))
  ELSE IF api.ok
       THEN returned([ content |-> Content("", orEmpty(api.content), ""),
                       tokenCount |-> orZero(api.total_tokens),
                       model |-> api.model ])
  ELSE IF api.code = "insufficient_quota" \/ api.code = "rate_limit_exceeded"
       THEN returned(generateMockResponse(text, parameters))
  ELSE thrown("LLM generation failed: " \o api.message)
(***************************************************************************)
(* The database service.  A task is the function initializeDatabase or the *)
(* database operation of a request; it is suspended at every await, and    *)
(* one action runs it from one await to the next.                          *)
(***************************************************************************)
MaxInFlight == 1

\* the requests the server handles at the same time
Slots == 1..MaxInFlight

\* the task of initializeDatabase, beside the tasks of the slots
InitTask == 0

null == "null"
undefined == "undefined"

NoExperiment ==
  [id |-> 0, prompt |-> <<>>, responses |-> <<>>, name |-> null,
   description |-> null]

\* a database operation: the function, where it is suspended, its
\* arguments, the index of its loop, its transaction (open or not, and the
\* rows inserted in it), whether its connection is lost, what it returned
\* or threw, and how many clients it has acquired and released
NoOperation ==
  [ name |-> "none", pc |-> "none", id |-> 0, experiment |-> NoExperiment,
    updates |-> [name |-> null, description |-> null],
    i |-> 0, inTransaction |-> FALSE,
    insertedExperiments |-> {}, insertedResponses |-> {},
    broken |-> FALSE, result |-> {}, error |-> "",
    acquired |-> 0, released |-> 0 ]

Running(op) == op.pc \notin {"none", "returned", "thrown"}

\* the operation of task t
operation(t) == IF t = InitTask THEN init ELSE requests[t].operation

\* the state in which task t has the operation op
SetOperation(t, op) ==
  IF t = InitTask
  THEN init' = op /\ UNCHANGED requests
  ELSE requests' = [requests EXCEPT ![t].operation = op] /\ UNCHANGED init

\* the errors of a query
connectionTerminated == "Connection terminated unexpectedly"
notQueryable ==
  "Client has encountered a connection error and is not queryable"
undefinedTable == "relation does not exist"
uniqueViolation == "duplicate key value violates unique constraint"
foreignKeyViolation == "violates foreign key constraint"

\* the error of a query by an operation whose connection is lost before
\* (broken) or at (lost) the query, "" when the connection carries the query
connectionError(op, lost) ==
  IF op.broken THEN notQueryable
  ELSE IF lost THEN connectionTerminated
  ELSE ""

\* the operation after a query that failed with the error e goes on at pc
\* (the catch or finally block)
failed(op, e, pc) ==
  [op EXCEPT !.pc = pc, !.error = e,
             !.broken = op.broken \/ e = connectionTerminated]

\* client.release(), and the operation returns or throws
release(op, pc) == [op EXCEPT !.pc = pc, !.released = op.released + 1]

\* task t is suspended again, as op
Suspended(t, op) == SetOperation(t, op) /\ UNCHANGED clients

\* the finally block of the operation op of task t releases the client,
\* and op returns or throws
ReleasedUnlessThrown(t, op, pc) ==
  IF pc = "thrown"
  THEN SetOperation(t, [op EXCEPT !.pc = pc]) /\ UNCHANGED clients
  ELSE SetOperation(t, [op EXCEPT !.pc = pc, !.released = op.released + 1])
         /\ clients' = clients \ {t}

Released(t, op, pc) ==
  SetOperation(t, release(op, pc)) /\ clients' = clients \ {t}

\* getPool(): with DATABASE_URL set, the first call creates the pool and
\* calls initializeDatabase() without awaiting it, which runs to its first
\* await, the connect() of its client
startInitializeDatabase ==
  [NoOperation EXCEPT !.name = "initializeDatabase", !.pc = "connect"]

\* the operation started by calling an async function of the PostgreSQL
\* service: it throws at once when getPool() throws, and is suspended at
\* the connect() of its client otherwise
start(op) ==
  IF DATABASE_URL THEN [op EXCEPT !.pc = "connect"]
  ELSE [op EXCEPT !.pc = "thrown",
                  !.error = "DATABASE_URL environment variable is not set"]

\* the pool and the task of initializeDatabase after a call of getPool()
getPool ==
  IF DATABASE_URL /\ ~pool
  THEN pool' = TRUE /\ init' = startInitializeDatabase
  ELSE UNCHANGED <<pool, init>>

\* the query an operation runs first on its client
firstQuery ==
  [ initializeDatabase |-> "statement",
    saveExperiment |-> "BEGIN",
    getExperiment |-> "SELECT experiments",
    getAllExperiments |-> "SELECT summaries",
    updateExperiment |-> "UPDATE",
    deleteExperiment |-> "DELETE" ]

\* await getPool().connect() of task t resolves with a client or is
\* rejected (the connection times out)
connect(t) ==
  /\ operation(t).pc = "connect"
  /\ \E ok \in BOOLEAN :
       IF ok
       THEN /\ clients' = clients \cup {t}
            /\ SetOperation(t, [operation(t) EXCEPT
                                  !.pc = firstQuery[operation(t).name],
                                  !.i = 1, !.acquired = @ + 1])
       ELSE Suspended(t, [operation(t) EXCEPT
                            !.pc = "thrown",
                            !.error = "timeout exceeded when trying to connect"])
  /\ UNCHANGED <<storage, besideOperations>>

\* the rows of an experiment and of one of its responses
experimentRow(experiment) ==
  [ id |-> experiment.id, prompt |-> experiment.prompt,
    name |-> experiment.name, description |-> experiment.description ]

responseRow(r, experiment_id) ==
  [ id |-> r.id, experiment_id |-> experiment_id, content |-> r.content,
    temperature |-> r.parameters.temperature, top_p |-> r.parameters.topP,
    scores |-> r.metrics, token_count |-> r.tokenCount, model |-> r.model ]

\* the identifiers of a set of rows
ids(rows) == {row.id : row \in rows}

\* the response a row of table responses is read back as
rowResponse(row) ==
  [ id |-> row.id, content |-> row.content,
    parameters |-> [temperature |-> row.temperature, topP |-> row.top_p],
    metrics |-> row.scores, tokenCount |-> row.token_count,
    model |-> row.model ]

\* SELECT * FROM responses WHERE experiment_id = id ORDER BY generated_at:
\* the responses are generated one after the other and their identifiers
\* are given out in that order
selectResponses(rows, id) ==
  [k \in 1..Cardinality({row \in rows : row.experiment_id = id}) |->
     rowResponse(CHOOSE row \in rows :
       /\ row.experiment_id = id
       /\ Cardinality({o \in rows : o.experiment_id = id /\ o.id <= row.id})
            = k)]

\* DELETE FROM experiments WHERE id = ...: the rows of table responses
\* that remain; REFERENCES experiments(id) ON DELETE CASCADE deletes the
\* responses of the experiment with it
cascadeNone(rows, id) == rows

cascade(rows, id) == {row \in rows : row.experiment_id # id}

\* the four statements of initializeDatabase, in order
statements ==
  << "CREATE TABLE experiments", "CREATE TABLE responses",
     "CREATE INDEX responses", "CREATE INDEX experiments" >>

\* the tables that exist after a statement of initializeDatabase
created(statement) ==
  CASE statement = "CREATE TABLE experiments" -> tables \cup {"experiments"}
    [] statement = "CREATE TABLE responses" -> tables \cup {"responses"}
    [] OTHER -> tables

\* initializeDatabase: its next statement is executed, or fails; after the
\* last statement or a failure the client is released
initializeDatabase ==
  /\ init.name = "initializeDatabase"
  /\ init.pc = "statement"
  /\ \E lost \in BOOLEAN :
       IF connectionError(init, lost) # ""
       THEN /\ Released(InitTask,
                        failed(init, connectionError(init, lost), init.pc),
                        "thrown")
            /\ UNCHANGED tables
       ELSE /\ tables' = created(statements[init.i])
            /\ IF init.i = Len(statements)
               THEN Released(InitTask, init, "returned")
               ELSE Suspended(InitTask, [init EXCEPT !.i = init.i + 1])
  /\ UNCHANGED <<experimentRows, responseRows, deleted, besideOperations>>

\* the error of INSERT INTO experiments by the operation op, "" when the
\* row is inserted
insertExperimentError(op) ==
  IF "experiments" \notin tables THEN undefinedTable
  ELSE IF op.experiment.id \in ids(experimentRows)
       THEN uniqueViolation
  ELSE ""

\* the error of INSERT INTO responses of the response r by the operation op
insertResponseError(op, r) ==
  IF "responses" \notin tables THEN undefinedTable
  ELSE IF r.id \in ids(responseRows) \cup ids(op.insertedResponses)
       THEN uniqueViolation
  ELSE IF op.experiment.id
            \notin ids(experimentRows) \cup ids(op.insertedExperiments)
       THEN foreignKeyViolation
  ELSE ""

\* the error of the query at which saveExperiment is suspended
saveExperimentError(op, lost) ==
  IF connectionError(op, lost) # "" THEN connectionError(op, lost)
  ELSE IF op.pc = "INSERT experiments" THEN insertExperimentError(op)
  ELSE IF op.pc = "INSERT responses"
       THEN insertResponseError(op, op.experiment.responses[op.i])
  ELSE ""

\* what saveExperiment runs after the query at which it is suspended
afterQuery(op) ==
  CASE op.pc = "BEGIN" -> "INSERT experiments"
    [] op.pc = "INSERT experiments" ->
         IF Len(op.experiment.responses) > 0 THEN "INSERT responses"
         ELSE "COMMIT"
    [] op.pc = "INSERT responses" ->
         IF op.i < Len(op.experiment.responses) THEN "INSERT responses"
         ELSE "COMMIT"
    [] OTHER -> "returned"

\* saveExperiment after the query at which it is suspended has succeeded
afterSuccess(op) ==
  [op EXCEPT
     !.pc = afterQuery(op),
     !.i = IF op.pc = "INSERT responses" THEN op.i + 1 ELSE op.i,
     !.inTransaction = op.pc # "COMMIT",
     !.insertedExperiments =
        IF op.pc = "INSERT experiments"
        THEN {experimentRow(op.experiment)}
        ELSE IF op.pc = "COMMIT" THEN {} ELSE @,
     !.insertedResponses =
        IF op.pc = "INSERT responses"
        THEN @ \cup {responseRow(op.experiment.responses[op.i],
                                 op.experiment.id)}
        ELSE IF op.pc = "COMMIT" THEN {} ELSE @]

\* saveExperiment of slot s: BEGIN, an INSERT or COMMIT is executed, or
\* fails and the catch block runs ROLLBACK; COMMIT stores the rows inserted
\* in the transaction, and the client is released after it
saveExperiment(s) ==
  LET op == requests[s].operation IN
  /\ op.name = "saveExperiment"
  /\ op.pc \in {"BEGIN", "INSERT experiments", "INSERT responses", "COMMIT"}
  /\ \E lost \in BOOLEAN :
       IF saveExperimentError(op, lost) # ""
       THEN /\ Suspended(s, failed(op, saveExperimentError(op, lost),
                                   "ROLLBACK"))
            /\ UNCHANGED <<experimentRows, responseRows>>
       ELSE IF op.pc = "COMMIT"
            THEN /\ experimentRows' =
                      experimentRows \cup op.insertedExperiments
                 /\ responseRows' = responseRows \cup op.insertedResponses
                 /\ Released(s, afterSuccess(op), "returned")
            ELSE /\ Suspended(s, afterSuccess(op))
                 /\ UNCHANGED <<experimentRows, responseRows>>
  /\ UNCHANGED <<tables, deleted, besideOperations>>

\* the operation after ROLLBACK: the transaction is over (the server ends
\* the transaction of a connection that is lost), and the error is the
\* one caught, or the error of ROLLBACK when ROLLBACK fails itself
afterRollback(op, lost) ==
  [op EXCEPT
     !.inTransaction = FALSE,
     !.insertedExperiments = {},
     !.insertedResponses = {},
     !.error = IF connectionError(op, lost) = "" THEN @
               ELSE connectionError(op, lost)]

\* the catch block of saveExperiment of slot s: ROLLBACK, then the error
\* is thrown and the finally block releases the client
saveExperimentRollback(s) ==
  LET op == requests[s].operation IN
  /\ op.name = "saveExperiment"
  /\ op.pc = "ROLLBACK"
  /\ \E lost \in BOOLEAN : Released(s, afterRollback(op, lost), "thrown")
  /\ UNCHANGED <<storage, besideOperations>>

\* the error of a query on the tables needed, "" when it is executed
queryError(op, lost, needed) ==
  IF connectionError(op, lost) # "" THEN connectionError(op, lost)
  ELSE IF ~(needed \subseteq tables) THEN undefinedTable
  ELSE ""


\* the experiment a row of table experiments is read back as
rowExperiment(row, responses) ==
  [ id |-> row.id, prompt |-> row.prompt, responses |-> responses,
    name |-> row.name, description |-> row.description ]

\* getExperiment of slot s: the first SELECT, after which it returns null
\* when there is no row, and the second SELECT, after which it returns the
\* experiment; the finally block releases the client
getExperiment(s) ==
  LET op == requests[s].operation IN
  /\ op.name = "getExperiment"
  /\ op.pc \in {"SELECT experiments", "SELECT responses"}
  /\ \E lost \in BOOLEAN :
       IF op.pc = "SELECT experiments"
       THEN IF queryError(op, lost, {"experiments"}) # ""
            THEN Released(s, failed(op, queryError(op, lost, {"experiments"}),
                                    op.pc), "thrown")
            ELSE IF op.id \notin ids(experimentRows)
                 THEN Released(s, [op EXCEPT !.result = {}], "returned")
            ELSE Suspended(s,
                   [op EXCEPT
                      !.pc = "SELECT responses",
                      !.experiment =
                         rowExperiment(CHOOSE row \in experimentRows :
                                         row.id = op.id, <<>>)])
       ELSE IF queryError(op, lost, {"responses"}) # ""
            THEN Released(s, failed(op, queryError(op, lost, {"responses"}),
                                    op.pc), "thrown")
            ELSE Released(s,
                   [op EXCEPT
                      !.result =
                         {[op.experiment EXCEPT
                             !.responses =
                                selectResponses(responseRows, op.id)]}],
                   "returned")
  /\ UNCHANGED <<storage, besideOperations>>

\* a row of the summary view
summary(row) ==
  [ id |-> row.id, name |-> row.name, prompt |-> row.prompt,
    responseCount |->
      Cardinality({r \in responseRows : r.experiment_id = row.id}) ]

\* getAllExperiments of slot s: the query of the summaries
getAllExperiments(s) ==
  LET op == requests[s].operation IN
  /\ op.name = "getAllExperiments"
  /\ op.pc = "SELECT summaries"
  /\ \E lost \in BOOLEAN :
       IF queryError(op, lost, {"experiments", "responses"}) # ""
       THEN Released(s, failed(op, queryError(op, lost,
                                   {"experiments", "responses"}), op.pc),
                     "thrown")
       ELSE Released(s, [op EXCEPT
                           !.result = {summary(row) : row \in experimentRows}],
                     "returned")
  /\ UNCHANGED <<storage, besideOperations>>

\* UPDATE experiments SET ... WHERE id = ...: the fields given are set
updated(rows, id, updates) ==
  {IF row.id # id THEN row
   ELSE [row EXCEPT
           !.name = IF updates.name = undefined THEN @ ELSE updates.name,
           !.description = IF updates.description = undefined THEN @
                           ELSE updates.description] : row \in rows}

\* updateExperiment of slot s: the UPDATE
updateExperiment(s) ==
  LET op == requests[s].operation IN
  /\ op.name = "updateExperiment"
  /\ op.pc = "UPDATE"
  /\ \E lost \in BOOLEAN :
       IF queryError(op, lost, {"experiments"}) # ""
       THEN /\ Released(s, failed(op, queryError(op, lost, {"experiments"}),
                                  op.pc), "thrown")
            /\ UNCHANGED experimentRows
       ELSE /\ Released(s, op, "returned")
            /\ experimentRows' = updated(experimentRows, op.id, op.updates)
  /\ UNCHANGED <<tables, responseRows, deleted, besideOperations>>

\* the experiments deleted so far after DELETE FROM experiments WHERE id =
\* id has deleted the experiment of that id, if it was stored
deletedAfter(id) == deleted \cup (ids(experimentRows) \cap {id})

\* deleteExperiment of slot s: the DELETE
deleteExperiment(s) ==
  LET op == requests[s].operation IN
  /\ op.name = "deleteExperiment"
  /\ op.pc = "DELETE"
  /\ \E lost \in BOOLEAN :
       IF queryError(op, lost, {"experiments"}) # ""
       THEN /\ Released(s, failed(op, queryError(op, lost, {"experiments"}),
                                  op.pc), "thrown")
            /\ UNCHANGED <<experimentRows, responseRows, deleted>>
       ELSE /\ Released(s, op, "returned")
            /\ experimentRows' = {row \in experimentRows : row.id # op.id}
            /\ responseRows' = cascade(responseRows, op.id)
            /\ deleted' = deletedAfter(op.id)
  /\ UNCHANGED <<tables, besideOperations>>

(***************************************************************************)
(* The SQLite implementation of the database service: every function is    *)
(* synchronous and runs to its end when it is called.                      *)
(***************************************************************************)
AllTables == {"experiments", "responses"}

\* better-sqlite3 is built with SQLITE_DEFAULT_FOREIGN_KEYS=1 and getDB()
\* sets no pragma but the journal mode: the foreign keys are enforced
foreign_keys == TRUE

\* .run(updates.name, updates.description, ...): better-sqlite3 binds
\* numbers, strings, buffers and null, and throws a TypeError for undefined
bindError(updates) ==
  IF updates.name = undefined \/ updates.description = undefined
  THEN "TypeError: SQLite3 can only bind numbers, strings, bigints, buffers, and null"
  ELSE ""

\* the error the SQLite function of the operation op throws, "" when it
\* returns; the statement fails when the database cannot be written or read
sqliteError(op, fails) ==
  IF fails THEN "SqliteError"
  ELSE IF op.name = "saveExperiment"
            /\ op.experiment.id \in ids(experimentRows)
       THEN "SqliteError: UNIQUE constraint failed: experiments.id"
  ELSE IF op.name = "updateExperiment" THEN bindError(op.updates)
  ELSE ""

\* what the SQLite function of the operation op returns
sqliteResult(op) ==
  IF op.name = "getExperiment"
  THEN {rowExperiment(row, selectResponses(responseRows, op.id)) :
          row \in {r \in experimentRows : r.id = op.id}}
  ELSE IF op.name = "getAllExperiments"
       THEN {summary(row) : row \in experimentRows}
  ELSE {}

\* the operation op after its SQLite function has run
sqliteDone(op, fails) ==
  IF sqliteError(op, fails) # ""
  THEN [op EXCEPT !.pc = "thrown", !.error = sqliteError(op, fails)]
  ELSE [op EXCEPT !.pc = "returned", !.result = sqliteResult(op)]

\* the rows of the two tables after the SQLite function of the operation
\* op has returned; the transaction of saveExperiment inserts the
\* experiment and all its responses
sqliteExperimentRows(op) ==
  CASE op.name = "saveExperiment" ->
         experimentRows \cup {experimentRow(op.experiment)}
    [] op.name = "updateExperiment" ->
         updated(experimentRows, op.id, op.updates)
    [] op.name = "deleteExperiment" ->
         {row \in experimentRows : row.id # op.id}
    [] OTHER -> experimentRows

sqliteResponseRows(op) ==
  CASE op.name = "saveExperiment" ->
         responseRows
           \cup {responseRow(op.experiment.responses[i], op.experiment.id) :
                   i \in 1..Len(op.experiment.responses)}
    [] op.name = "deleteExperiment" /\ foreign_keys ->
         cascade(responseRows, op.id)
    [] OTHER -> responseRows

\* slot s, whose request becomes r, calls the function of the operation op
\* of @/services/database.  SQLite: getDB() opens the database and creates
\* the tables, and the function runs to its end, with no effect when it
\* throws.  PostgreSQL: getPool() creates the pool at the first call and
\* the operation is suspended at the connect() of its client.
Calls(s, r, op) ==
  IF database = "sqlite"
  THEN /\ db' = TRUE
       /\ tables' = AllTables
       /\ \E fails \in BOOLEAN :
            /\ requests' =
                 [requests EXCEPT ![s] =
                    [r EXCEPT !.operation = sqliteDone(op, fails)]]
            /\ IF sqliteError(op, fails) = ""
               THEN /\ experimentRows' = sqliteExperimentRows(op)
                    /\ responseRows' = sqliteResponseRows(op)
                    /\ deleted' = IF op.name = "deleteExperiment"
                                  THEN deletedAfter(op.id) ELSE deleted
               ELSE UNCHANGED <<experimentRows, responseRows, deleted>>
       /\ UNCHANGED <<pool, init, clients>>
  ELSE /\ requests' = [requests EXCEPT ![s] = [r EXCEPT !.operation = start(op)]]
       /\ getPool
       /\ UNCHANGED <<db, storage, clients>>

(***************************************************************************)
(* The route handlers.  A slot holds the request being handled: its        *)
(* route, where the handler is suspended, the local variables of the       *)
(* handler, the database operation it has called and its reply.  apis      *)
(* remembers what the API did for every parameter set, failures the        *)
(* parameter sets whose generation threw, and apiErrors counts the calls   *)
(* of the API that did not return the usual completion.                    *)
(***************************************************************************)
NoReply ==
  [ status |-> 0, error |-> "", message |-> "", details |-> {},
    experimentId |-> 0, responses |-> <<>>, experiment |-> {},
    experiments |-> {}, success |-> FALSE, attachment |-> "" ]

NoRequest ==
  [ route |-> "none", pc |-> "idle", prompt |-> <<>>, parameters |-> <<>>,
    model |-> "", i |-> 0, responses |-> <<>>, apis |-> <<>>,
    failures |-> {}, apiErrors |-> 0, experiment |-> NoExperiment, format |-> "",
    operation |-> NoOperation, reply |-> NoReply ]

\* NextResponse.json(body, {status})
replies(r, reply) == [r EXCEPT !.pc = "replied", !.reply = reply]

\* the reply of the catch block of a handler
internalServerError(message) ==
  [NoReply EXCEPT !.status = 500, !.error = "Internal server error",
                  !.message = message]

\* a slot takes a new request when its handler has replied and the
\* operation it called has ended
Receivable(s) ==
  /\ requests[s].pc \in {"idle", "replied"}
  /\ ~Running(requests[s].operation)

\* the slots other than s and the state outside the slots stay as they are
OnlySlot(s, r) ==
  /\ requests' = [requests EXCEPT ![s] = r]
  /\ UNCHANGED <<db, pool, init, clients, storage>>

\* the value of calculateMetrics(prompt, content), which the handlers copy
\* and never look into
calculatedMetrics(text, content) ==
  [calculateMetrics |-> [prompt |-> text, response |-> content]]

zeroMetrics ==
  [ coherence |-> 0, completeness |-> 0, readability |-> 0,
    lengthAppropriatenss |-> 0, structuralQuality |-> 0, overall |-> 0 ]

\* the response pushed for the parameter set params when generateResponse
\* has ended with outcome: the response generated, or the one of the catch
\* block
pushed(id, text, params, model, outcome) ==
  IF outcome.returned
  THEN [ id |-> id, content |-> outcome.value.content,
         parameters |-> params,
         metrics |-> calculatedMetrics(text, outcome.value.content),
         tokenCount |-> outcome.value.tokenCount,
         model |-> outcome.value.model ]
  ELSE [ id |-> id,
         content |-> Content("Error generating response: ", <<>>,
                             outcome.error),
         parameters |-> params, metrics |-> zeroMetrics, tokenCount |-> 0,
         model |-> model ]

\* the responses of the handler after the try statement of one parameter set
responsesSkipFailed(responses, id, text, params, model, outcome) ==
  IF outcome.returned
  THEN Append(responses, pushed(id, text, params, model, outcome))
  ELSE responses

responsesAfter(responses, id, text, params, model, outcome) ==
  Append(responses, pushed(id, text, params, model, outcome))

\* what openai.chat.completions.create does: the usual completion, a
\* completion without choices or usage, or an error with or without a code
completion(content, total_tokens) ==
  [ ok |-> TRUE, content |-> content, total_tokens |-> total_tokens,
    model |-> "gpt-4o-mini-2024-07-18", code |-> "", message |-> "" ]

apiError(code, message) ==
  [ ok |-> FALSE, content |-> JUndefined, total_tokens |-> JUndefined,
    model |-> "", code |-> code, message |-> message ]

usualCompletion ==
  completion(JString(textOneSentence), JNumber(Int2Rat(12)))

otherOutcomes ==
  { completion(JUndefined, JUndefined),
    apiError("insufficient_quota", "You exceeded your current quota"),
    apiError("rate_limit_exceeded", "Rate limit reached"),
    apiError("invalid_api_key", "Incorrect API key provided"),
    apiError("", "Connection error.") }

\* generateResponse returns before it calls the API
notCalled ==
  [ ok |-> FALSE, content |-> JUndefined, total_tokens |-> JUndefined,
    model |-> "", code |-> "not called", message |-> "" ]

MaxApiErrors == 1

\* the outcomes of the API for the next call of the request r; the API is
\* not called without a client
apiOutcomes(r) ==
  IF USE_MOCK \/ ~openai THEN {notCalled}
  ELSE IF r.apiErrors < MaxApiErrors THEN {usualCompletion} \cup otherOutcomes
  ELSE {usualCompletion}

\* POST /api/generate, from the request to the first await of the loop:
\* request.json(), generateRequestSchema.parse(body), validateParameters of
\* every parameter set; body.json is FALSE for a body that is not JSON
caughtNoZodError(isZodError, issues, message) ==
  internalServerError(message)

\* the reply of the catch block of POST /api/generate
caught(isZodError, issues, message) ==
  IF isZodError
  THEN [NoReply EXCEPT !.status = 400, !.error = "Validation error",
                       !.details = issues]
  ELSE internalServerError(message)

POSTGenerate(s, body) ==
  /\ Receivable(s)
  /\ received' = received + 1
  /\ UNCHANGED <<analyzerVars, environment, idCounter>>
  /\ LET r == [NoRequest EXCEPT !.route = "POST /api/generate"] IN
     IF ~body.json
     THEN OnlySlot(s, replies(r, caught(FALSE, {}, "Unexpected token")))
     ELSE IF schemaIssues(body) # {}
          THEN OnlySlot(s, replies(r, caught(TRUE, schemaIssues(body), "")))
     ELSE IF \E i \in 1..Len(validatedData(body).parameters) :
               ~validateParameters(validatedData(body).parameters[i]).valid
          THEN OnlySlot(s, replies(r, [NoReply EXCEPT
                                         !.status = 400,
                                         !.error = "Invalid parameters"]))
     ELSE OnlySlot(s, [r EXCEPT
                         !.pc = "generate",
                         !.prompt = validatedData(body).prompt,
                         !.parameters = validatedData(body).parameters,
                         !.model = validatedData(body).model,
                         !.i = 1])

\* the request r after generateResponse has ended with outcome for its
\* parameter set i: generateId() names the response pushed
afterGeneration(r, api, outcome) ==
  [r EXCEPT
     !.responses = responsesAfter(r.responses, idCounter + 1, r.prompt,
                                  r.parameters[r.i], r.model, outcome),
     !.apis = Append(@, api),
     !.failures = IF outcome.returned THEN @ ELSE @ \cup {r.i},
     !.apiErrors = IF api \in otherOutcomes THEN @ + 1 ELSE @,
     !.i = r.i + 1]

\* the experiment created after the loop: generateId() names it
createdExperiment(r, id) ==
  [ id |-> id, prompt |-> r.prompt, responses |-> r.responses,
    name |-> null, description |-> null ]

\* the handler calls saveExperiment(experiment) with the request r
Saves(s, r, id) ==
  Calls(s, [r EXCEPT !.pc = "await", !.experiment = createdExperiment(r, id)],
        [NoOperation EXCEPT !.name = "saveExperiment",
                            !.experiment = createdExperiment(r, id)])

\* POST /api/generate, one turn of the loop: generateResponse ends for the
\* parameter set i and its response is pushed; then the next parameter set
\* is generated or, after the last one, the experiment is created and
\* saveExperiment is called
POSTGenerateResponse(s) ==
  /\ requests[s].route = "POST /api/generate"
  /\ requests[s].pc = "generate"
  /\ UNCHANGED received
  /\ \E api \in apiOutcomes(requests[s]) :
       IF requests[s].i < Len(requests[s].parameters)
       THEN /\ OnlySlot(s, afterGeneration(requests[s], api,
                 generateResponse(requests[s].prompt,
                                  requests[s].parameters[requests[s].i],
                                  requests[s].model, api)))
            /\ idCounter' = idCounter + 1
       ELSE /\ Saves(s, afterGeneration(requests[s], api,
                 generateResponse(requests[s].prompt,
                                  requests[s].parameters[requests[s].i],
                                  requests[s].model, api)),
                 idCounter + 2)
            /\ idCounter' = idCounter + 2
  /\ UNCHANGED <<analyzerVars, environment>>

\* the handler of slot s goes on after the operation it awaits has ended
Awaited(s, route) ==
  /\ requests[s].route = route
  /\ requests[s].pc = "await"
  /\ ~Running(requests[s].operation)
  /\ UNCHANGED <<analyzerVars, environment, idCounter, received>>

\* the reply of POST /api/generate after await saveExperiment(experiment):
\* the experimentId and the responses, or the reply of the catch block
savedReplyWhateverSaved(r) ==
  [NoReply EXCEPT !.status = 200, !.experimentId = r.experiment.id,
                  !.responses = r.responses]

savedReply(r) ==
  IF r.operation.pc = "returned"
  THEN [NoReply EXCEPT !.status = 200, !.experimentId = r.experiment.id,
                       !.responses = r.responses]
  ELSE caught(FALSE, {}, r.operation.error)

\* POST /api/generate after await saveExperiment(experiment)
POSTGenerateSaved(s) ==
  /\ Awaited(s, "POST /api/generate")
  /\ OnlySlot(s, replies(requests[s], savedReply(requests[s])))

\* GET /api/experiments, to its await: getExperiment(id) with an id,
\* getAllExperiments() without one (id = 0)
GETExperiments(s, id) ==
  /\ Receivable(s)
  /\ received' = received + 1
  /\ UNCHANGED <<analyzerVars, environment, idCounter>>
  /\ Calls(s, [NoRequest EXCEPT !.route = "GET /api/experiments",
                                !.pc = "await"],
           IF id # 0
           THEN [NoOperation EXCEPT !.name = "getExperiment", !.id = id]
           ELSE [NoOperation EXCEPT !.name = "getAllExperiments"])

\* GET /api/experiments after its await
GETExperimentsAwaited(s) ==
  /\ Awaited(s, "GET /api/experiments")
  /\ OnlySlot(s, replies(requests[s],
       IF requests[s].operation.pc = "thrown"
       THEN internalServerError(requests[s].operation.error)
       ELSE IF requests[s].operation.name = "getAllExperiments"
            THEN [NoReply EXCEPT !.status = 200,
                                 !.experiments = requests[s].operation.result]
       ELSE IF requests[s].operation.result = {}
            THEN [NoReply EXCEPT !.status = 404,
                                 !.error = "Experiment not found"]
       ELSE [NoReply EXCEPT !.status = 200,
                            !.experiment = requests[s].operation.result]))

\* PATCH /api/experiments, to its await; a body without id is id = 0
PATCHExperiments(s, id, name, description) ==
  /\ Receivable(s)
  /\ received' = received + 1
  /\ UNCHANGED <<analyzerVars, environment, idCounter>>
  /\ IF id = 0
     THEN OnlySlot(s, replies([NoRequest EXCEPT
                                 !.route = "PATCH /api/experiments"],
                              [NoReply EXCEPT
                                 !.status = 400,
                                 !.error = "Experiment ID is required"]))
     ELSE Calls(s, [NoRequest EXCEPT !.route = "PATCH /api/experiments",
                                     !.pc = "await"],
                [NoOperation EXCEPT
                   !.name = "updateExperiment", !.id = id,
                   !.updates = [name |-> name, description |-> description]])

\* the reply of PATCH and DELETE /api/experiments after the await
succeeded(r) ==
  replies(r, IF r.operation.pc = "thrown"
             THEN internalServerError(r.operation.error)
             ELSE [NoReply EXCEPT !.status = 200, !.success = TRUE])

PATCHExperimentsAwaited(s) ==
  /\ Awaited(s, "PATCH /api/experiments")
  /\ OnlySlot(s, succeeded(requests[s]))

\* DELETE /api/experiments, to its await; no id is id = 0
DELETEExperiments(s, id) ==
  /\ Receivable(s)
  /\ received' = received + 1
  /\ UNCHANGED <<analyzerVars, environment, idCounter>>
  /\ IF id = 0
     THEN OnlySlot(s, replies([NoRequest EXCEPT
                                 !.route = "DELETE /api/experiments"],
                              [NoReply EXCEPT
                                 !.status = 400,
                                 !.error = "Experiment ID is required"]))
     ELSE Calls(s, [NoRequest EXCEPT !.route = "DELETE /api/experiments",
                                     !.pc = "await"],
                [NoOperation EXCEPT !.name = "deleteExperiment", !.id = id])

DELETEExperimentsAwaited(s) ==
  /\ Awaited(s, "DELETE /api/experiments")
  /\ OnlySlot(s, succeeded(requests[s]))

\* the reply of GET /api/export when getExperiment(id) has given the set of
\* experiments found (none for null) and the format is format
exported(found, format) ==
  IF found = {}
  THEN [NoReply EXCEPT !.status = 404, !.error = "Experiment not found"]
  ELSE IF format = "json"
       THEN [NoReply EXCEPT !.status = 200, !.experiment = found,
                            !.attachment = "experiment.json"]
  ELSE IF format = "csv"
       THEN [NoReply EXCEPT !.status = 200, !.experiment = found,
                            !.attachment = "experiment.csv"]
  ELSE [NoReply EXCEPT !.status = 400,
                       !.error = "Invalid format. Use 'json' or 'csv'"]

\* the reply of GET /api/export when getExperiment(id) has given a promise:
\* the promise is an object, JSON.stringify writes it as {} and it has no
\* property responses to map
exportedPromise(format) ==
  IF format = "json"
  THEN [NoReply EXCEPT !.status = 200, !.experiment = {},
                       !.attachment = "experiment-undefined.json"]
  ELSE IF format = "csv"
       THEN internalServerError(
              "Cannot read properties of undefined (reading 'map')")
  ELSE [NoReply EXCEPT !.status = 400,
                       !.error = "Invalid format. Use 'json' or 'csv'"]

\* searchParams.get("format") || "json"
formatOr(format) == IF format = "" THEN "json" ELSE format

\* GET /api/export: getExperiment(id) is called and not awaited.  The
\* SQLite function has run to its end by then; the PostgreSQL function has
\* given its promise, and the handler replies while the operation goes on.
GETExport(s, id, format) ==
  /\ Receivable(s)
  /\ received' = received + 1
  /\ UNCHANGED <<analyzerVars, environment, idCounter>>
  /\ LET r == [NoRequest EXCEPT !.route = "GET /api/export",
                                !.format = formatOr(format)] IN
     IF id = 0
     THEN OnlySlot(s, replies(r, [NoReply EXCEPT
                                    !.status = 400,
                                    !.error = "Experiment ID is required"]))
     ELSE Calls(s, IF database = "sqlite" THEN [r EXCEPT !.pc = "await"]
                   ELSE replies(r, exportedPromise(formatOr(format))),
                [NoOperation EXCEPT !.name = "getExperiment", !.id = id])

\* GET /api/export with the result of the SQLite function
GETExportFound(s) ==
  /\ Awaited(s, "GET /api/export")
  /\ OnlySlot(s, replies(requests[s],
       IF requests[s].operation.pc = "thrown"
       THEN internalServerError(requests[s].operation.error)
       ELSE exported(requests[s].operation.result, requests[s].format)))

(***************************************************************************)
(* The requests.  The identifiers are bounded: a request that would need   *)
(* more of them is not taken.                                              *)
(***************************************************************************)
MaxIds == 21

parameterSet(temperature, topP) ==
  [temperature |-> JNumber(temperature), topP |-> JNumber(topP)]

body(text, parameters, model) ==
  [json |-> TRUE, prompt |-> text, parameters |-> parameters,
   model |-> model]

\* a body that is not JSON
bodyNotJSON ==
  [json |-> FALSE, prompt |-> JUndefined, parameters |-> <<>>,
   model |-> NoModelName("undefined")]

\* one parameter set of low temperature and the default model
bodyOne ==
  body(JString(promptExplain), <<parameterSet(Rat(2, 10), Int2Rat(1))>>,
       NoModelName("undefined"))

\* two parameter sets, of high and of medium temperature, and a model
bodyTwo ==
  body(JString(promptExplain),
       <<parameterSet(Int2Rat(2), Int2Rat(0)),
         parameterSet(Rat(7, 10), Rat(9, 10))>>,
       ModelName("gpt-4o"))

\* n parameter sets of the temperatures 0.1, 0.2, ...
bodyOfSets(n) ==
  body(JString(promptExplain),
       [i \in 1..n |-> parameterSet(Rat(i, 10), Rat(1, 2))],
       NoModelName("undefined"))

\* a prompt of n characters
bodyOfPrompt(n) ==
  body(JString([i \in 1..n |-> "a"]),
       <<parameterSet(Int2Rat(1), Int2Rat(1))>>,
       NoModelName("undefined"))

\* a valid parameter set and one whose temperature, or top_p, is out of
\* range, or is no number
bodyOutOfRange(temperature, topP) ==
  body(JString(promptExplain),
       <<parameterSet(Int2Rat(1), Int2Rat(1)),
         [temperature |-> temperature, topP |-> topP]>>,
       NoModelName("undefined"))

InvalidBodies ==
  { bodyNotJSON,
    bodyOfSets(MinParameterSets - 1), bodyOfSets(MaxParameterSets + 1),
    bodyOfPrompt(0), bodyOfPrompt(MaxPromptLength + 1),
    body(JNumber(Int2Rat(1)), <<>>, NoModelName("number")),
    bodyOutOfRange(JNumber(Rat(21, 10)), JNumber(Int2Rat(1))),
    bodyOutOfRange(JNumber(Rat(-1, 10)), JNumber(Int2Rat(1))),
    bodyOutOfRange(JNumber(Int2Rat(1)), JNumber(Rat(11, 10))),
    bodyOutOfRange(JNumber(Int2Rat(1)), JNumber(Rat(-1, 10))),
    bodyOutOfRange(JString(<<"h","o","t">>), JNumber(Int2Rat(1))) }

GenerateBodies ==
  InvalidBodies
    \cup {bodyOne, bodyTwo, bodyOfSets(MaxParameterSets)}

ServiceBodies == {bodyNotJSON, bodyOfSets(0), bodyOne, bodyTwo}

\* a request is taken when fewer than limit requests have been received
\* and the identifiers it may need are left
POSTGenerateOf(bodies, limit) ==
  \E s \in Slots : \E b \in bodies :
    /\ received < limit
    /\ idCounter + Len(b.parameters) + 1 <= MaxIds
    /\ POSTGenerate(s, b)

\* the identifiers a request may name: none (0), those generateId has given
\* out, and one it never gives
RequestIds == {0, MaxIds + 1} \cup 1..idCounter

InitService ==
  /\ prompt = promptEmpty
  /\ response = <<>>
  /\ call = "none"
  /\ ret = <<>>
  /\ OPENAI_API_KEY \in BOOLEAN
  /\ database \in {"sqlite", "postgres"}
  /\ DATABASE_URL \in (IF database = "postgres" THEN BOOLEAN ELSE {FALSE})
  /\ db = FALSE
  /\ pool = FALSE
  /\ clients = {}
  /\ tables \in (IF DATABASE_URL THEN {{}, AllTables} ELSE {{}})
  /\ experimentRows = {}
  /\ responseRows = {}
  /\ deleted = {}
  /\ init = NoOperation
  /\ requests = [s \in Slots |-> NoRequest]
  /\ idCounter = 0
  /\ received = 0

(***************************************************************************)
(* POST /api/generate with the two implementations of saveExperiment       *)
(***************************************************************************)
MaxGenerateRequests == 1

NextGenerate ==
  \/ POSTGenerateOf(GenerateBodies, MaxGenerateRequests)
  \/ \E s \in Slots : POSTGenerateResponse(s)
  \/ \E s \in Slots : POSTGenerateSaved(s)
  \/ \E t \in Slots \cup {InitTask} : connect(t)
  \/ initializeDatabase
  \/ \E s \in Slots : saveExperiment(s)
  \/ \E s \in Slots : saveExperimentRollback(s)

SpecGenerate == InitService /\ [][NextGenerate]_vars

(***************************************************************************)
(* All the routes with the two implementations of the database service     *)
(***************************************************************************)
MaxRequests == 3

\* a request other than POST /api/generate is taken
Taken(s) == received < MaxRequests /\ Receivable(s)

NextService ==
  \/ POSTGenerateOf(ServiceBodies, MaxRequests)
  \/ \E s \in Slots : POSTGenerateResponse(s)
  \/ \E s \in Slots : POSTGenerateSaved(s)
  \/ \E s \in Slots : \E id \in RequestIds :
       Taken(s) /\ GETExperiments(s, id)
  \/ \E s \in Slots : GETExperimentsAwaited(s)
  \/ \E s \in Slots : \E id \in RequestIds :
       \E name, description \in {undefined, "name"} :
         Taken(s) /\ PATCHExperiments(s, id, name, description)
  \/ \E s \in Slots : PATCHExperimentsAwaited(s)
  \/ \E s \in Slots : \E id \in RequestIds :
       Taken(s) /\ DELETEExperiments(s, id)
  \/ \E s \in Slots : DELETEExperimentsAwaited(s)
  \/ \E s \in Slots : \E id \in RequestIds :
       \E format \in {"", "json", "csv", "xml"} :
         Taken(s) /\ GETExport(s, id, format)
  \/ \E s \in Slots : GETExportFound(s)
  \/ \E t \in Slots \cup {InitTask} : connect(t)
  \/ initializeDatabase
  \/ \E s \in Slots : saveExperiment(s)
  \/ \E s \in Slots : saveExperimentRollback(s)
  \/ \E s \in Slots : getExperiment(s)
  \/ \E s \in Slots : getAllExperiments(s)
  \/ \E s \in Slots : updateExperiment(s)
  \/ \E s \in Slots : deleteExperiment(s)

\* the responses stored are those of the mock generator
InitRoutes == InitService /\ ~OPENAI_API_KEY

SpecService == InitRoutes /\ [][NextService]_vars

(***************************************************************************)
(* Properties                                                              *)
(***************************************************************************)
MetricFields ==
  {"coherence", "completeness", "readability", "lengthAppropriatenss",
   "structuralQuality", "overall"}

Zero == Int2Rat(0)
Hundred == Int2Rat(100)
Half == Rat(1, 2)

InRange(x) == IsFinite(x) /\ Le(Zero, x) /\ Le(x, Hundred)

\* k is an integer at most one half away from x
NearestInteger(k, x) ==
  /\ IsFinite(k)
  /\ IsFinite(x)
  /\ k.d = 1
  /\ Le(Sub(x, Half), k)
  /\ Le(k, Add(x, Half))

\* the number of sentences of a text: the maximal stretches without a
\* terminator that hold a character other than white space
SentenceCount(text) ==
  Cardinality({i \in 1..Len(text) :
     /\ text[i] \notin Terminators
     /\ (i = 1 \/ text[i - 1] \in Terminators)
     /\ \E j \in i..Len(text) :
          /\ text[j] \notin WhiteSpace
          /\ \A k \in i..j : text[k] \notin Terminators})

\* the number of words of a text: the maximal stretches without white space
TokenCount(text) ==
  Cardinality({i \in 1..Len(text) :
     text[i] \notin WhiteSpace /\ (i = 1 \/ text[i - 1] \in WhiteSpace)})

\* C1: each of the six fields returned by calculateMetrics is a number in the
\* closed range [0,100]
C1_FieldsInRange ==
  call = "calculateMetrics" => \A f \in MetricFields : InRange(ret[f])

\* a result with one field at the upper and one at the lower end of the range
C1_Witness ==
  /\ call = "calculateMetrics"
  /\ ret.coherence = Hundred
  /\ ret.completeness = Zero

\* C2: each of the five metric fields is the nearest integer to its
\* analyzer's value, and overall is the nearest integer to the mean of the
\* five unrounded analyzer values
C2_RoundedFields ==
  call = "calculateMetrics" =>
    LET c == calculateCoherence(response)
        m == calculateCompleteness(prompt, response)
        r == calculateReadability(response)
        l == calculateLengthAppropriateness(prompt, response)
        q == calculateStructuralQuality(response)
        mean == Div(Add(Add(Add(Add(c, m), r), l), q), Int2Rat(5))
    IN  /\ NearestInteger(ret.coherence, c)
        /\ NearestInteger(ret.completeness, m)
        /\ NearestInteger(ret.readability, r)
        /\ NearestInteger(ret.lengthAppropriatenss, l)
        /\ NearestInteger(ret.structuralQuality, q)
        /\ NearestInteger(ret.overall, mean)

\* a result whose overall differs from the rounded mean of its rounded fields
C2_Witness ==
  /\ call = "calculateMetrics"
  /\ ret.overall #
       MathRound(Div(Add(Add(Add(Add(ret.coherence, ret.completeness),
                                 ret.readability), ret.lengthAppropriatenss),
                         ret.structuralQuality), Int2Rat(5)))

\* C3: calculateMetrics returns six defined numbers for every pair of texts,
\* the empty and the white-space-only ones included; a metric that is 0 does
\* not keep the others from being computed
C3_Total ==
  call = "calculateMetrics" =>
    /\ DOMAIN ret = MetricFields
    /\ \A f \in MetricFields : IsFinite(ret[f])

\* the metrics of a white-space-only response: coherence and readability are
\* 0, the other metrics are computed
C3_Witness ==
  /\ call = "calculateMetrics"
  /\ Len(response) > 0
  /\ \A i \in 1..Len(response) : response[i] \in WhiteSpace
  /\ ret.coherence = Zero
  /\ ret.readability = Zero
  /\ ret.structuralQuality = Int2Rat(65)
  /\ ret.completeness = Int2Rat(75)

\* the band [min, max] holds the number of words of the response
InBand(count, band) == band[1] <= count /\ count <= band[2]

\* C5: calculateLengthAppropriateness returns exactly 100 if and only if the
\* number of words (white-space-delimited tokens) of the response lies in the
\* expected band
C5_HundredIffInBand ==
  call = "calculateLengthAppropriateness" =>
    (ret = Hundred <=> InBand(TokenCount(response), expectedRange(prompt)))

\* the bonus-free signals of calculateStructuralQuality
OtherSignals == SignalNames \ {"punctuation"}

\* the text has a sentence, and its last sentence ends in a terminator
AllSentencesTerminated(text) ==
  /\ SentenceCount(text) > 0
  /\ trim(text)[Len(trim(text))] \in Terminators

\* C6: a text in which every sentence ends in '.', '!' or '?' gets the full
\* punctuation bonus of 10 on top of the base score and its other signals
C6_FullPunctuationBonus ==
  (call = "calculateStructuralQuality" /\ AllSentencesTerminated(response)) =>
    ret = clamp(Add(Int2Rat(BaseScore + 10),
                    SumOver(structuralSignals(response), OtherSignals)),
                0, 100)

\* the unmatched parenthesis changes no signal but the one of the parentheses
SameOtherSignals(text, other) ==
  LET a == structuralSignals(text)
      b == structuralSignals(other)
  IN  \A name \in SignalNames \ {"parens"} : a[name] = b[name]

ParenCase ==
  /\ call = "unmatchedParen"
  /\ SameOtherSignals(response, insertAt(response, ret.at, "("))

\* C7 as stated: the score of a text with balanced parentheses is exactly 5
\* above the score of the text with one unmatched '(' added
C7_ExactlyFiveHigher ==
  ParenCase => ret.balanced = Add(ret.unmatched, Int2Rat(5))

\* C7 amended: it is exactly 5 above when the unclamped score of the balanced
\* text lies in [5,100]; in every case it is above by at least 0 and at most 5
C7_FiveHigherUnlessClamped ==
  ParenCase =>
    /\ Le(ret.unmatched, ret.balanced)
    /\ Le(ret.balanced, Add(ret.unmatched, Int2Rat(5)))
    /\ (Le(Int2Rat(5), structuralRawScore(response))
        /\ Le(structuralRawScore(response), Hundred))
       => ret.balanced = Add(ret.unmatched, Int2Rat(5))

\* a text of score 100 whose score with the unmatched parenthesis is 95
C7_Witness ==
  /\ ParenCase
  /\ ret.balanced = Hundred
  /\ ret.unmatched = Int2Rat(95)

\* C8: calculateCoherence returns 0 for a text without sentences and 85 for a
\* text of one sentence, whatever its paragraphs and transition words
C8_ZeroAndOneSentence ==
  call = "calculateCoherence" =>
    /\ SentenceCount(response) = 0 => ret = Zero
    /\ SentenceCount(response) = 1 => ret = Int2Rat(85)

\* one sentence of two paragraphs with transition words scores 85
C8_Witness ==
  /\ call = "calculateCoherence"
  /\ SentenceCount(response) = 1
  /\ paragraphCount(response) > 1
  /\ testAny(transitionWords, response)
  /\ ret = Int2Rat(85)

\* the prompt has no word of more than 3 characters outside the stop words
NoKeyTerm(text) ==
  \A i \in 1..Len(splitWhitespace(text)) :
    LET w == splitWhitespace(text)[i]
    IN  Len(w) <= 3 \/ toLowerCase(w) \in commonWords

\* C9: calculateCompleteness returns exactly 75, whatever the response, when
\* the prompt has no word longer than 3 characters outside the stop words
C9_DefaultWithoutKeyTerms ==
  (call = "calculateCompleteness" /\ NoKeyTerm(prompt)) => ret = Int2Rat(75)

\* a prompt of long stop words only, and a response that holds an example cue
\* and a list
C9_Witness ==
  /\ call = "calculateCompleteness"
  /\ prompt = promptStopWords
  /\ response = textList
  /\ ret = Int2Rat(75)

\* the text up to its last run of white space: one word less for split(/\s+/)
WithoutLastWord(text) ==
  LET IsStart(i) ==
        text[i] \in WhiteSpace /\ (i = 1 \/ text[i - 1] \notin WhiteSpace)
      back == CHOOSE k \in 0..(Len(text) - 1) :
                /\ IsStart(Len(text) - k)
                /\ \A j \in 0..(k - 1) : ~IsStart(Len(text) - j)
  IN  SubSeq(text, 1, Len(text) - back - 1)

NoOverride(text) ==
  /\ ~testAny(listPromptPatterns, text)
  /\ ~testAny(explainPromptPatterns, text)
  /\ ~testAny(choicePromptPatterns, text)

\* the band of a prompt of n words
BaseBand(n) ==
  IF n < 10 THEN <<30, 200>>
  ELSE IF n < 30 THEN <<50, 400>>
  ELSE <<100, 800>>

\* the score of a response of count words when band is the expected band
ScoreInBand(count, band) == clamp(lengthScore(count, band[1], band[2]), 0, 100)

\* C11: when the prompt matches none of the three patterns, the band used by
\* calculateLengthAppropriateness is [30,200] for a prompt of fewer than 10
\* words, [50,400] for 10 to 29 words and [100,800] otherwise, the words of
\* the prompt being its maximal white-space-delimited tokens
C11_BaseBandByTokens ==
  (call = "calculateLengthAppropriateness" /\ NoOverride(prompt)) =>
    ret = ScoreInBand(responseWordCount(response),
                      BaseBand(TokenCount(prompt)))

\* the band of the last of the patterns list, explain, yes/no that matches
LastMatchBand(text) ==
  IF testAny(choicePromptPatterns, text) THEN <<20, 150>>
  ELSE IF testAny(explainPromptPatterns, text) THEN <<80, 500>>
  ELSE <<50, 600>>

\* C12: when the prompt matches one or more of the patterns, the band is the
\* one of the last matching pattern in the order list, explain, yes/no:
\* [20,150] wins over [80,500], which wins over [50,600], and any match
\* replaces the base band
C12_LastMatchWins ==
  (call = "calculateLengthAppropriateness" /\ ~NoOverride(prompt)) =>
    ret = ScoreInBand(responseWordCount(response), LastMatchBand(prompt))

\* a prompt that matches the three patterns, scored against [20,150]: the
\* four words of the response are 16 short of 20
C12_Witness ==
  /\ call = "calculateLengthAppropriateness"
  /\ testAny(listPromptPatterns, prompt)
  /\ testAny(explainPromptPatterns, prompt)
  /\ testAny(choicePromptPatterns, prompt)
  /\ response = textOneSentence
  /\ ret = Int2Rat(36)

\* C13: calculateReadability returns 0 whenever the text has no words or no
\* sentences: the empty text, a text of white space only, a text of sentence
\* terminators only
C13_ZeroWithoutWordsOrSentences ==
  (call = "calculateReadability"
   /\ (TokenCount(response) = 0 \/ SentenceCount(response) = 0)) =>
    ret = Zero

\* a text that has a word but no sentence: terminators only
C13_Witness ==
  /\ call = "calculateReadability"
  /\ TokenCount(response) > 0
  /\ SentenceCount(response) = 0
  /\ ret = Zero

\* the number of sentences of more than 40 words
LongCount(text) ==
  Cardinality({i \in 1..Len(splitIntoSentences(text)) :
                 TokenCount(splitIntoSentences(text)[i]) > 40})

\* a period that ends a sentence and is followed by a space and the word "a"
MovablePeriods(text) ==
  {p \in 1..(Len(text) - 2) :
     text[p] = "." /\ text[p + 1] = " " /\ text[p + 2] = "a"}

\* the text with the period at p moved behind the word that follows it: one
\* word goes from the next sentence to the sentence that the period ends
moveTerminator(text, p) ==
  [i \in 1..Len(text) |->
     IF i = p THEN " " ELSE IF i = p + 1 THEN "a"
     ELSE IF i = p + 2 THEN "." ELSE text[i]]

\* the two texts have the same clamped Flesch score, number of sentences and
\* paragraph bonus
SameReadabilityTerms(t, u) ==
  /\ t.readabilityScore = u.readabilityScore
  /\ t.sentences = u.sentences
  /\ t.paragraphBonus = u.paragraphBonus

\* C14: the result of calculateReadability is the clamped Flesch score minus
\* (long sentences / sentences) * 20, a penalty of at most 20, plus the
\* paragraph bonus, clamped; of two texts with the same clamped Flesch score,
\* number of sentences and paragraph bonus, the one with more sentences of
\* more than 40 words does not have the higher result
C14_PenaltyMonotone ==
  (call = "calculateReadability" /\ SentenceCount(response) > 0) =>
    LET t == readabilityTerms(response)
        long == LongCount(response)
        penalty == Mul(Rat(long, t.sentences), Int2Rat(20))
    IN  /\ Le(penalty, Int2Rat(20))
        /\ ret = clamp(Add(Sub(t.readabilityScore, penalty),
                           Int2Rat(t.paragraphBonus)), 0, 100)
        /\ \A p \in MovablePeriods(response) :
             LET other == moveTerminator(response, p)
             IN  SameReadabilityTerms(t, readabilityTerms(other)) =>
                   /\ LongCount(other) >= long =>
                        Le(calculateReadability(other), ret)
                   /\ LongCount(other) <= long =>
                        Le(ret, calculateReadability(other))

\* two sentences of 40 words each, and the same text with one word moved to
\* the first sentence: one long sentence more, and a lower result
C14_Witness ==
  /\ call = "calculateReadability"
  /\ LongCount(response) = 0
  /\ \E p \in MovablePeriods(response) :
       LET other == moveTerminator(response, p)
       IN  /\ SameReadabilityTerms(readabilityTerms(response),
                                   readabilityTerms(other))
           /\ LongCount(other) = 1
           /\ Lt(calculateReadability(other), ret)
           /\ Lt(ret, Hundred)

\* the names and the fields of the five records, in their order
ExplanationNames ==
  <<"Coherence", "Completeness", "Readability", "Length Appropriateness",
    "Structural Quality">>
ExplanationFields ==
  <<"coherence", "completeness", "readability", "lengthAppropriatenss",
    "structuralQuality">>
ExplanationTexts ==
  <<coherenceDetails, completenessDetails, readabilityDetails, lengthDetails,
    structuralDetails>>

\* the tier of a score: 1 from 80 on, 2 in [60,80), 3 in [40,60), 4 below 40
TierOf(score) ==
  CHOOSE k \in 1..4 :
    \/ k = 1 /\ Le(Int2Rat(80), score)
    \/ k = 2 /\ Le(Int2Rat(60), score) /\ Lt(score, Int2Rat(80))
    \/ k = 3 /\ Le(Int2Rat(40), score) /\ Lt(score, Int2Rat(60))
    \/ k = 4 /\ Lt(score, Int2Rat(40))

HasListMarkerLine(text) ==
  \E i \in 1..Len(text) :
    /\ LineStart(text, i)
    /\ \/ text[i] \in {"-", Bullet, "*"}
       \/ text[i] \in Digits /\ i < Len(text) /\ text[i + 1] = "."

\* the score of calculateCompleteness when the bonuses for structured content
\* and for elaboration are structured and details
CompletenessWith(structured, details) ==
  LET t == completenessTerms(keyTerms(prompt), response)
  IN  clamp(Add(t.termCoverage, Int2Rat(t.examples + structured + details)),
            0, 100)

\* C16: calculateCompleteness adds the bonus of 15 for structured content
\* whenever a line of the response, its first line included, starts with a
\* list marker or the response holds one of the words first, second, third,
\* finally, and adds no such bonus otherwise
C16_StructuredBonus ==
  (call = "calculateCompleteness" /\ ~NoKeyTerm(prompt)) =>
    ret = CompletenessWith(
            IF HasListMarkerLine(response)
               \/ testAny(ordinalPatterns, response) THEN 15 ELSE 0,
            completenessTerms(keyTerms(prompt), response).details)

\* C17: calculateCompleteness adds the bonus of 10 for elaboration exactly
\* when the response is longer than 200 characters and splits into three or
\* more segments at its sentence terminators '.', '!' and '?'
C17_ElaborationBonus ==
  (call = "calculateCompleteness" /\ ~NoKeyTerm(prompt)) =>
    ret = CompletenessWith(
            completenessTerms(keyTerms(prompt), response).structured,
            IF Len(response) > 200 /\ splitLength(response, Terminators) >= 3
            THEN 10 ELSE 0)

\* the case-folded tokens of a sentence that are longer than 3 characters
LongTokens(s) ==
  {toLowerCase(SubSeq(s, i,
                      CHOOSE j \in i..Len(s) :
                        /\ \A k \in i..j : s[k] \notin WhiteSpace
                        /\ (j = Len(s) \/ s[j + 1] \in WhiteSpace))) :
     i \in {i \in 1..(Len(s) - 3) :
              /\ \A k \in i..(i + 3) : s[k] \notin WhiteSpace
              /\ (i = 1 \/ s[i - 1] \in WhiteSpace)}}

\* 70 times the share of the long tokens of sentence a that sentence b has
\* too, plus 30 if b holds a transition word, clamped
PairValue(a, b) ==
  LET shared == Cardinality(LongTokens(a) \cap LongTokens(b))
      own == Cardinality(LongTokens(a))
      overlap == Rat(70 * shared, IF own > 1 THEN own ELSE 1)
      cue == IF \E w \in transitionWords : includes(toLowerCase(b), w)
             THEN 30 ELSE 0
  IN  clamp(Add(overlap, Int2Rat(cue)), 0, 100)

\* C18: for a text of two or more sentences, calculateCoherence is the mean
\* over the pairs of consecutive sentences of the clamped pair value, plus
\* min(2 * paragraphs, 10), clamped to [0,100]
C18_MeanOfPairsPlusBonus ==
  (call = "calculateCoherence" /\ SentenceCount(response) >= 2) =>
    LET sentences == splitIntoSentences(response)
        pairs == [i \in 1..(Len(sentences) - 1) |->
                    PairValue(sentences[i], sentences[i + 1])]
        mean == Div(SumFrom(pairs, 1), Int2Rat(Len(sentences) - 1))
        paragraphs == paragraphCount(response)
        bonus == IF 2 * paragraphs < 10 THEN 2 * paragraphs ELSE 10
    IN  ret = clamp(Add(mean, Int2Rat(bonus)), 0, 100)

\* two sentences that share one of the two long tokens of the first, the
\* second with a transition word, in one paragraph: 35 + 30 + 2
C18_Witness ==
  /\ call = "calculateCoherence"
  /\ response = textOverlap
  /\ ret = Int2Rat(67)

\* the letters of a token, case-folded, in order
Letters(w) ==
  LET IsLetter(c) == c \in LowerSet
  IN  SelectSeq(toLowerCase(w), IsLetter)

\* the number of maximal groups of the vowels a, e, i, o, u, y
VowelGroups(l) ==
  LET Vowels == {"a", "e", "i", "o", "u", "y"}
  IN  Cardinality({i \in 1..Len(l) :
                     l[i] \in Vowels /\ (i = 1 \/ l[i - 1] \notin Vowels)})

\* C19: countSyllables returns 0 for a token without a letter; otherwise it
\* returns the number of vowel groups of the letters, less 1 if the last
\* letter is 'e', and at least 1
C19_SyllableCount ==
  call = "countSyllables" =>
    LET l == Letters(response)
    IN  IF Len(l) = 0 THEN ret = 0
        ELSE LET groups == IF l[Len(l)] = "e" THEN VowelGroups(l) - 1
                           ELSE VowelGroups(l)
             IN  /\ ret = IF groups > 1 THEN groups ELSE 1
                 /\ ret >= 1

\* a token with a character that is no letter, whose only vowel is a final
\* 'e': the count of 0 is raised to 1
C19_Witness ==
  /\ call = "countSyllables"
  /\ Len(Letters(response)) < Len(response)
  /\ VowelGroups(Letters(response)) = 1
  /\ Letters(response)[Len(Letters(response))] = "e"
  /\ ret = 1

\* the starts of the maximal stretches without a terminator that hold a
\* character other than white space
SegmentStarts(text) ==
  {i \in 1..Len(text) :
     /\ text[i] \notin Terminators
     /\ (i = 1 \/ text[i - 1] \in Terminators)
     /\ \E j \in i..Len(text) :
          /\ text[j] \notin WhiteSpace
          /\ \A k \in i..j : text[k] \notin Terminators}

\* the end of the stretch without a terminator that starts at i
SegmentEnd(text, i) ==
  CHOOSE j \in i..Len(text) :
    /\ \A k \in i..j : text[k] \notin Terminators
    /\ (j = Len(text) \/ text[j + 1] \in Terminators)

\* C20: splitIntoSentences returns, in the order of the text, the trimmed
\* segments between the runs of '.', '!' and '?' that are not empty after
\* trimming: a run of terminators is one boundary, no sentence holds a
\* terminator or starts or ends with white space, and the empty text has no
\* sentence
C20_TrimmedSegmentsInOrder ==
  call = "splitIntoSentences" =>
    LET starts == sorted(SegmentStarts(response), Len(response))
    IN  /\ Len(ret) = Len(starts)
        /\ \A k \in 1..Len(starts) :
             /\ ret[k] = trim(SubSeq(response, starts[k],
                                     SegmentEnd(response, starts[k])))
             /\ Len(ret[k]) > 0
             /\ ret[k][1] \notin WhiteSpace
             /\ ret[k][Len(ret[k])] \notin WhiteSpace
             /\ \A i \in 1..Len(ret[k]) : ret[k][i] \notin Terminators
        /\ (response = <<>> => ret = <<>>)

\* a text with a run of two terminators and white space after it, whose only
\* sentence is one character: the run is one boundary, the segment is trimmed
C20_Witness ==
  /\ call = "splitIntoSentences"
  /\ Len(response) = MaxHelperLen
  /\ \E i \in 1..(Len(response) - 2) :
       /\ response[i] \in Terminators
       /\ response[i + 1] \in Terminators
       /\ response[i + 2] \in WhiteSpace
  /\ Len(ret) = 1
  /\ Len(ret[1]) = 1

(***************************************************************************)
(* Properties of the service                                               *)
(***************************************************************************)
\* the requests of POST /api/generate being handled or answered
Generating == {s \in Slots : requests[s].route = "POST /api/generate"}

\* the response the handler pushes for parameter set k of the request r
\* when generateResponse returns the result of the mock generator
mockResponse(r, k) ==
  pushed(r.responses[k].id, r.prompt, r.parameters[k], r.model,
         returned(generateMockResponse(r.prompt, r.parameters[k])))

\* the response the handler pushes for parameter set k of the request r
\* when generateResponse throws the error of the API call
failedResponse(r, k) ==
  pushed(r.responses[k].id, r.prompt, r.parameters[k], r.model,
         thrown("LLM generation failed: " \o r.apis[k].message))

FallbackCodes == {"insufficient_quota", "rate_limit_exceeded"}

\* C21: generateResponse uses the mock generator whenever no API key is
\* configured, and then the API is not called; with a key, a failed call
\* whose code is insufficient_quota or rate_limit_exceeded gives the result
\* of the mock generator (model "mock-gpt-4"), and any other failed call
\* gives no result: the error "LLM generation failed: ..." is thrown
C21_MockWithoutKeyFallbackOrRaise ==
  \A s \in Generating : \A k \in 1..Len(requests[s].responses) :
    /\ ~OPENAI_API_KEY =>
         /\ requests[s].apis[k] = notCalled
         /\ requests[s].responses[k] = mockResponse(requests[s], k)
         /\ requests[s].responses[k].model = "mock-gpt-4"
         /\ k \notin requests[s].failures
    /\ OPENAI_API_KEY /\ ~requests[s].apis[k].ok
         /\ requests[s].apis[k].code \in FallbackCodes =>
         /\ requests[s].responses[k] = mockResponse(requests[s], k)
         /\ requests[s].responses[k].model = "mock-gpt-4"
         /\ k \notin requests[s].failures
    /\ OPENAI_API_KEY /\ ~requests[s].apis[k].ok
         /\ requests[s].apis[k].code \notin FallbackCodes =>
         /\ k \in requests[s].failures
         /\ requests[s].responses[k] = failedResponse(requests[s], k)
         /\ requests[s].responses[k].content.message
              = "LLM generation failed: " \o requests[s].apis[k].message

\* with a key, the call for the second of two parameter sets has failed with
\* rate_limit_exceeded and its response is the one of the mock generator
C21_Witness ==
  \E s \in Generating :
    /\ OPENAI_API_KEY
    /\ Len(requests[s].responses) = 2
    /\ requests[s].apis[2].code = "rate_limit_exceeded"
    /\ requests[s].responses[2].model = "mock-gpt-4"
    /\ requests[s].responses[1].model = "gpt-4o-mini-2024-07-18"

\* the requests of POST /api/generate that have passed validation: the
\* schema admits no empty list of parameter sets
Validated == {s \in Generating : requests[s].parameters # <<>>}

\* the response rows stored for the experiment id
rowsOf(id) == {row \in responseRows : row.experiment_id = id}

\* C22: for a request that passes validation, POST /api/generate builds one
\* response per parameter set, in the order of the parameter list, also when
\* generation fails for some sets: a failed set yields a placeholder with
\* the parameters of that set, all six metrics 0 and tokenCount 0, and the
\* loop goes on with the sets that remain; every experiment saved has
\* between 1 and 20 responses
C22_OneResponsePerSetInOrder ==
  /\ \A s \in Validated :
       /\ Len(requests[s].responses) = requests[s].i - 1
       /\ Len(requests[s].responses) <= Len(requests[s].parameters)
       /\ requests[s].pc # "generate" =>
            Len(requests[s].responses) = Len(requests[s].parameters)
       /\ \A k \in 1..Len(requests[s].responses) :
            /\ requests[s].responses[k].parameters = requests[s].parameters[k]
            /\ k \in requests[s].failures =>
                 /\ requests[s].responses[k].metrics = zeroMetrics
                 /\ \A f \in DOMAIN zeroMetrics : zeroMetrics[f] = 0
                 /\ requests[s].responses[k].tokenCount = 0
       /\ requests[s].operation.name = "saveExperiment" =>
            /\ requests[s].operation.experiment.responses
                 = requests[s].responses
            /\ Len(requests[s].responses) \in 1..20
  /\ \A row \in experimentRows : Cardinality(rowsOf(row.id)) \in 1..20

\* the generation of the first of two parameter sets has failed, the second
\* one has been generated, and the experiment is saved with the placeholder
\* and the response, in the order of the parameter sets
C22_Witness ==
  \E s \in Validated :
    /\ requests[s].failures = {1}
    /\ Len(requests[s].parameters) = 2
    /\ requests[s].reply.status = 200
    /\ requests[s].responses[2].model = "gpt-4o-mini-2024-07-18"
    /\ selectResponses(responseRows, requests[s].reply.experimentId)
         = requests[s].responses

\* an experiment of twenty parameter sets is saved with twenty responses
C22_WitnessTwenty ==
  \E s \in Validated :
    /\ requests[s].reply.status = 200
    /\ Cardinality(rowsOf(requests[s].reply.experimentId)) = MaxParameterSets

\* C23: POST /api/generate answers with an experimentId only after
\* saveExperiment has returned for that experiment; when saveExperiment
\* throws the reply is a 500 error without experimentId; so the experiment
\* of every experimentId in a reply is stored with all its responses
C23_ExperimentIdOnlyAfterSave ==
  \A s \in Generating :
    /\ requests[s].reply.experimentId # 0 =>
         /\ requests[s].reply.status = 200
         /\ requests[s].operation.name = "saveExperiment"
         /\ requests[s].operation.pc = "returned"
         /\ requests[s].operation.experiment.id
              = requests[s].reply.experimentId
         /\ experimentRow(requests[s].experiment) \in experimentRows
         /\ selectResponses(responseRows, requests[s].reply.experimentId)
              = requests[s].reply.responses
    /\ requests[s].pc = "replied" /\ requests[s].operation.pc = "thrown" =>
         /\ requests[s].reply.status = 500
         /\ requests[s].reply.experimentId = 0
         /\ requests[s].reply.error = "Internal server error"
    /\ requests[s].pc = "await" => requests[s].reply = NoReply

\* saveExperiment has thrown after the experiment row was inserted in its
\* transaction, and the reply is the 500 error
C23_Witness ==
  \E s \in Generating :
    /\ requests[s].pc = "replied"
    /\ requests[s].operation.pc = "thrown"
    /\ requests[s].operation.error = connectionTerminated
    /\ requests[s].reply.status = 500
    /\ requests[s].experiment.id \notin ids(experimentRows)

\* the bodies that fail generateRequestSchema or hold a parameter set that
\* validateParameters rejects
Rejected(b) ==
  /\ b.json
  /\ \/ schemaIssues(b) # {}
     \/ \E i \in 1..Len(b.parameters) :
          ~validateParameters(validatedData(b).parameters[i]).valid

\* C24: a POST /api/generate request that fails the validation of the
\* schema, or holds a parameter set that validateParameters rejects, is
\* answered with status 400 in the step that receives it; no generation is
\* started for any of its parameter sets, no identifier is generated, no
\* database function is called and the stored rows stay as they are
C24_RejectedRequestStartsNothing ==
  [][received' # received =>
     \A s \in Slots : \A b \in GenerateBodies :
       (Rejected(b) /\ POSTGenerate(s, b)) =>
         /\ requests'[s].pc = "replied"
         /\ requests'[s].reply.status = 400
         /\ requests'[s].reply.experimentId = 0
         /\ requests'[s].responses = <<>>
         /\ requests'[s].apis = <<>>
         /\ requests'[s].operation = NoOperation
         /\ UNCHANGED <<storage, idCounter, db, pool, init, clients>>]_vars

\* a request whose first parameter set is valid and whose second one has a
\* temperature above 2 has been answered 400 with the issue of the second
\* set, and nothing was generated or stored
C24_Witness ==
  \E s \in Generating :
    /\ requests[s].reply.status = 400
    /\ requests[s].reply.error = "Validation error"
    /\ \E e \in requests[s].reply.details :
         e.path = "temperature" /\ e.index = 2
           /\ e.message = "Number must be less than or equal to"
    /\ requests[s].responses = <<>>
    /\ idCounter = 0
    /\ experimentRows = {} /\ responseRows = {}
    /\ ~pool /\ ~db

\* the PostgreSQL saveExperiment of slot s ends in this step: it had been
\* called and was suspended, and now it has returned or thrown
SaveEnds(s) ==
  /\ database = "postgres"
  /\ requests[s].operation.name = "saveExperiment"
  /\ Running(requests[s].operation)
  /\ ~Running(requests'[s].operation)

\* the rows of the experiment of saveExperiment of slot s after this step:
\* all of them, or none of them
AllStored(s) ==
  /\ experimentRow(requests[s].operation.experiment) \in experimentRows'
  /\ \A k \in 1..Len(requests[s].operation.experiment.responses) :
       responseRow(requests[s].operation.experiment.responses[k],
                   requests[s].operation.experiment.id) \in responseRows'

NoneStored(s) ==
  /\ requests[s].operation.experiment.id \notin ids(experimentRows')
  /\ \A row \in responseRows' :
       row.experiment_id # requests[s].operation.experiment.id

\* after saveExperiment returns or throws, the experiment row and all its
\* response rows are stored, or none of them is
SaveAllOrNothing ==
  \A s \in Slots :
    SaveEnds(s) =>
      /\ requests'[s].operation.pc = "returned" => AllStored(s)
      /\ requests'[s].operation.pc = "thrown" => NoneStored(s)

\* a query of saveExperiment that fails leads to ROLLBACK, after which
\* nothing of the transaction is left and saveExperiment throws
SaveRollsBack ==
  \A s \in Slots :
    /\ requests[s].operation.name = "saveExperiment" =>
         (requests'[s].operation.error # requests[s].operation.error
            /\ requests[s].operation.pc \in
                 {"BEGIN", "INSERT experiments", "INSERT responses", "COMMIT"}
          => requests'[s].operation.pc = "ROLLBACK")
    /\ SaveEnds(s) /\ requests[s].operation.pc = "ROLLBACK" =>
         /\ requests'[s].operation.pc = "thrown"
         /\ ~requests'[s].operation.inTransaction
         /\ requests'[s].operation.insertedExperiments = {}
         /\ requests'[s].operation.insertedResponses = {}

\* the error saveExperiment throws after ROLLBACK is the error it caught
SaveRethrows ==
  \A s \in Slots :
    SaveEnds(s) /\ requests[s].operation.pc = "ROLLBACK" =>
      requests'[s].operation.error = requests[s].operation.error

\* what holds of the claim of C25: all or nothing, with a rollback on every
\* failure
SaveIsAtomic == [][SaveAllOrNothing /\ SaveRollsBack]_vars

\* C25: the PostgreSQL saveExperiment is all-or-nothing: after it returns
\* or throws, the experiment row and every one of its response rows are
\* stored, or none of them is; a failure of an insert rolls the transaction
\* back and the error of the insert is thrown to the caller
C25_AllOrNothingAndRethrown ==
  [][SaveAllOrNothing /\ SaveRollsBack /\ SaveRethrows]_vars

\* the queries of the database operations on the tables experiments and
\* responses
TableQueries ==
  {"INSERT experiments", "INSERT responses", "SELECT experiments",
   "SELECT responses", "SELECT summaries", "UPDATE", "DELETE"}

\* the operation of slot s executes a query on the tables in this step: it
\* was suspended at the query, and the connection has carried it
ExecutesTableQuery(s) ==
  /\ database = "postgres"
  /\ requests[s].operation.pc \in TableQueries
  /\ requests'[s].operation # requests[s].operation
  /\ requests'[s].operation.error \notin {connectionTerminated, notQueryable}

\* initializeDatabase, started by the first getPool(), has executed its two
\* CREATE TABLE statements
SchemaInitialized ==
  /\ init.name = "initializeDatabase"
  /\ \/ init.pc = "returned"
     \/ init.pc = "statement" /\ init.i > 2

\* C26: no query that reads or writes the tables experiments or responses
\* is executed before the initialization started by the first getPool() has
\* created those tables, however the first request and initializeDatabase
\* are interleaved
C26_NoQueryBeforeSchema ==
  [][\A s \in Slots : ExecutesTableQuery(s) => SchemaInitialized]_vars

\* the harm of a query before the schema: on a database without tables the
\* first request is answered 500 because the relation does not exist, while
\* initializeDatabase has not created it yet
FirstRequestFindsNoTable ==
  \E s \in Slots :
    /\ requests[s].reply.status = 500
    /\ requests[s].reply.message = undefinedTable
    /\ received = 1
    /\ Running(init)

\* the tasks that run operations of the PostgreSQL service
Tasks == Slots \cup {InitTask}

\* the tasks whose operation holds a client: it has got one from connect()
\* and has not ended
Holding == {t \in Tasks : Running(operation(t)) /\ operation(t).acquired = 1}

\* C27: every PostgreSQL operation releases the client it got from the pool
\* exactly once on every path: an operation that has returned or thrown has
\* released as many clients as it acquired, at most one; an operation that
\* has not ended has released none; so the clients checked out are those of
\* the operations still running, and none when all operations have ended
C27_ClientReleasedExactlyOnce ==
  /\ \A t \in Tasks :
       /\ operation(t).acquired \in {0, 1}
       /\ operation(t).released <= operation(t).acquired
       /\ operation(t).pc \in {"returned", "thrown"} =>
            operation(t).released = operation(t).acquired
       /\ Running(operation(t)) => operation(t).released = 0
       /\ operation(t).pc = "returned" /\ database = "postgres" =>
            operation(t).acquired = 1
  /\ clients = Holding
  /\ (\A t \in Tasks : ~Running(operation(t))) => clients = {}

\* saveExperiment has thrown after a ROLLBACK that failed itself, on a
\* connection lost during the transaction, initializeDatabase has returned,
\* both have released their clients and no client is checked out
C27_Witness ==
  /\ init.pc = "returned"
  /\ init.acquired = 1 /\ init.released = 1
  /\ \E s \in Slots :
       /\ requests[s].operation.name = "saveExperiment"
       /\ requests[s].operation.pc = "thrown"
       /\ requests[s].operation.error = notQueryable
       /\ requests[s].operation.acquired = 1
       /\ requests[s].operation.released = 1
  /\ clients = {}

\* getExperiment of slot s is called for an experiment deleted before, and
\* in this step its lookup of the experiment is done: the first SELECT of
\* the PostgreSQL function, the whole SQLite function
LooksUpDeleted(s) ==
  /\ requests'[s].operation.name = "getExperiment"
  /\ requests'[s].operation.id \in deleted
  /\ requests'[s].operation.error = ""
  /\ \/ /\ database = "postgres"
        /\ requests[s].operation.name = "getExperiment"
        /\ requests[s].operation.pc = "SELECT experiments"
        /\ requests'[s].operation # requests[s].operation
     \/ /\ database = "sqlite"
        /\ received' # received
        /\ requests'[s] # requests[s]

\* C28: after deleteExperiment(id) has completed, no row of table
\* experiments and no row of table responses with experiment_id = id
\* remains in storage, and getExperiment(id) returns null, with the SQLite
\* and with the PostgreSQL implementation
C28_DeletedExperimentIsGone ==
  /\ [](\A id \in deleted :
          /\ id \notin ids(experimentRows)
          /\ rowsOf(id) = {})
  /\ [][\A s \in Slots :
          LooksUpDeleted(s) =>
            /\ requests'[s].operation.pc = "returned"
            /\ requests'[s].operation.result = {}]_vars

\* an experiment was saved with its responses and deleted, and a later
\* GET /api/experiments?id= of it is answered 404
C28_Witness ==
  \E s \in Slots :
    /\ requests[s].route = "GET /api/experiments"
    /\ requests[s].operation.id \in deleted
    /\ requests[s].operation.pc = "returned"
    /\ requests[s].operation.result = {}
    /\ requests[s].reply.status = 404
    /\ responseRows = {}
    /\ idCounter > 0

\* the requests that look up one experiment by its identifier, and whose
\* lookup has not failed with a database error
Lookups ==
  {s \in Slots :
     /\ requests[s].route \in {"GET /api/experiments", "GET /api/export"}
     /\ requests[s].pc = "replied"
     /\ requests[s].operation.name = "getExperiment"
     /\ requests[s].operation.pc # "thrown"}

\* C29: a lookup of an experiment identifier that is not stored is answered
\* with status 404 "Experiment not found" by GET /api/experiments?id= and by
\* GET /api/export?id=, and no reply of status 200 is built from a missing
\* experiment
C29_MissingExperimentIs404 ==
  \A s \in Lookups :
    /\ requests[s].operation.id \notin ids(experimentRows) =>
         /\ requests[s].reply.status = 404
         /\ requests[s].reply.error = "Experiment not found"
    /\ requests[s].reply.status = 200 => requests[s].reply.experiment # {}

\* what holds of the claim of C29: GET /api/experiments?id=, and GET
\* /api/export?id= with the SQLite implementation, answer 404 for an
\* experiment that is not stored
AwaitedLookupIs404 ==
  \A s \in Lookups :
    (requests[s].route = "GET /api/experiments" \/ database = "sqlite") =>
      /\ requests[s].operation.id \notin ids(experimentRows) =>
           /\ requests[s].reply.status = 404
           /\ requests[s].reply.error = "Experiment not found"
      /\ requests[s].reply.status = 200 => requests[s].reply.experiment # {}

\* GET /api/export?id=&format=json of an experiment that is not stored is
\* answered 200 with an empty experiment, and getExperiment has returned
\* null after the reply
ExportOfMissingIs200 ==
  \E s \in Lookups :
    /\ requests[s].route = "GET /api/export"
    /\ requests[s].operation.pc = "returned"
    /\ requests[s].operation.result = {}
    /\ requests[s].reply.status = 200
    /\ requests[s].reply.experiment = {}

=============================================================================
